---- MODULE Spec2Model ----
(***************************************************************************)
(* Model of the task reconciliation core of terminalist                    *)
(* (src/sync/tasks.rs): SyncService's write operations, executed by        *)
(* concurrently running background operations that share one local store   *)
(* guarded by a single tokio Mutex and one remote backend gateway.         *)
(***************************************************************************)
EXTENDS Integers, Sequences, FiniteSets, TLC

\* ------------------------------------------------------------------------
\* Bounds of the model
\* ------------------------------------------------------------------------
\* number of concurrently running background operations
NumProcs == 2
\* number of write intents handled in one behaviour
MaxOps == 2

Procs == 1..NumProcs

\* ------------------------------------------------------------------------
\* Values
\* ------------------------------------------------------------------------
\* Option::None
None == "none"
\* the tokio Mutex around LocalStorage is free
NoHolder == 0

\* self.backend_uuid of the SyncService under analysis, and another instance
SelfBackend == "b1"
OtherBackend == "b2"

\* ProjectUpdateIntent
Unchanged == [kind |-> "Unchanged"]
SetProject(p) == [kind |-> "Set", uuid |-> p]
MoveToInbox == [kind |-> "MoveToInbox"]

\* the task row seeded in the store (entities::task::Model)
SeedTask(del, comp) ==
  [uuid |-> "t1", backend_uuid |-> SelfBackend, remote_id |-> "rt1",
   content |-> "Initial content", description |-> None,
   project_uuid |-> "p1", section_uuid |-> None, parent_uuid |-> None,
   priority |-> 1, order_index |-> 0, due_date |-> "2026-03-08",
   due_datetime |-> None, is_recurring |-> FALSE, deadline |-> "2026-03-05",
   duration |-> None, is_completed |-> comp, is_deleted |-> del]

\* a subtask of the seeded task, stored under its own local and remote id
SeedSubtask ==
  [SeedTask(FALSE, FALSE) EXCEPT !.uuid = "c1", !.remote_id = "rc1",
                                 !.content = "Subtask content",
                                 !.parent_uuid = "t1"]

\* remote project ids the backend may name in an answer; "rp3" has no local
\* row for b1
RemoteProjectIds == {"rp2", "rp3"}
\* remote task ids the backend may assign
RemoteTaskIds == {"rt1", "rt2"}
\* messages of BackendError
BackendErrors == {"401 unauthorized"}

\* project table: rows of the two projects of b1 and one project of b2 that
\* carries the remote id "rp3"; inbox names the projects flagged
\* is_inbox_project
ProjectTable(inbox) ==
  { [uuid |-> "p1", backend_uuid |-> SelfBackend, remote_id |-> "rp1",
     is_inbox_project |-> ("p1" \in inbox)],
    [uuid |-> "p2", backend_uuid |-> SelfBackend, remote_id |-> "rp2",
     is_inbox_project |-> ("p2" \in inbox)],
    [uuid |-> "p3", backend_uuid |-> OtherBackend, remote_id |-> "rp3",
     is_inbox_project |-> ("p3" \in inbox)] }

\* section table (static): one section of project p1
SectionTable ==
  { [uuid |-> "s1", backend_uuid |-> SelfBackend, remote_id |-> "rs1",
     project_uuid |-> "p1"] }

\* the four due columns as the backend reports them
DueTuples ==
  { [due_date |-> None, due_datetime |-> None, is_recurring |-> FALSE,
     deadline |-> None],
    [due_date |-> "2026-03-10", due_datetime |-> "2026-03-10T09:00:00Z",
     is_recurring |-> TRUE, deadline |-> "2026-03-14"] }

\* crate::backend::BackendTask
BackendTask(rid, pr, due) ==
  [remote_id |-> rid, content |-> "Remote content",
   description |-> "Remote description", priority |-> 1,
   order_index |-> 1, due_date |-> due.due_date, due_datetime |-> due.due_datetime,
   is_recurring |-> due.is_recurring, deadline |-> due.deadline,
   duration |-> None, is_completed |-> FALSE,
   project_remote_id |-> pr, section_remote_id |-> None,
   parent_remote_id |-> None]

\* what the gateway may answer to update_task(remote_id, ..): a task of the
\* project that has a local row, with or without due fields, or a task of
\* the project that has none
UpdateResponses(rid) ==
  { r \in { BackendTask(rid, pr, due) :
              pr \in RemoteProjectIds, due \in DueTuples } :
      r.project_remote_id = "rp3" => r.due_date = None }

\* what the gateway may answer to create_task(..): a new remote id in the
\* project that has a local row, with or without due fields; a new remote
\* id in the project that has none; or the remote id a stored row carries
CreateResponses ==
  { r \in { BackendTask(rid, pr, due) :
              rid \in RemoteTaskIds, pr \in RemoteProjectIds,
              due \in DueTuples } :
      /\ r.project_remote_id = "rp3"
           => (r.due_date = None /\ r.remote_id = "rt2")
      /\ r.remote_id = "rt1" => r.due_date # None }

\* Uuid::new_v4(): the n-th local task id generated
NewUuid(n) == "t" \o ToString(n)

\* anyhow results
Ok(v) == [ok |-> TRUE, val |-> v]
Err(m) == [ok |-> FALSE, msg |-> m]

\* an error text is modelled as the sequence of the pieces format! joins
Contains(msg, piece) == \E i \in 1..Len(msg) : msg[i] = piece

\* map_err(|e| anyhow!("Backend error: {}", e))
BackendErrorMsg(e) == <<"Backend error: ", e>>

\* ------------------------------------------------------------------------
\* Repositories (local store queries)
\* ------------------------------------------------------------------------
\* TaskRepository::get_by_remote_id: rows of one backend with one remote id
TaskRowsByRemoteId(ts, b, rid) ==
  { u \in DOMAIN ts : ts[u].backend_uuid = b /\ ts[u].remote_id = rid }

\* TaskRepository::get_remote_id
TaskGetRemoteId(ts, uuid) ==
  IF uuid \in DOMAIN ts THEN Ok(ts[uuid].remote_id)
  ELSE Err(<<"Task not found: ", uuid>>)

\* ProjectRepository::get_remote_id
ProjectGetRemoteId(projs, uuid) ==
  IF \E p \in projs : p.uuid = uuid
  THEN Ok((CHOOSE p \in projs : p.uuid = uuid).remote_id)
  ELSE Err(<<"Project not found: ", uuid>>)

\* ProjectRepository::get_by_remote_id
ProjectsByRemoteId(projs, b, rid) ==
  { p \in projs : p.backend_uuid = b /\ p.remote_id = rid }

\* SyncService::lookup_project_uuid
LookupProjectUuid(projs, b, rid, context) ==
  IF ProjectsByRemoteId(projs, b, rid) # {}
  THEN Ok((CHOOSE p \in ProjectsByRemoteId(projs, b, rid) : TRUE).uuid)
  ELSE Err(<<"Project with remote_id ", rid, " not found locally during ",
             context, ". Please sync projects first.">>)

\* SyncService::lookup_section_uuid
LookupSectionUuid(b, rid) ==
  IF rid = None THEN None
  ELSE IF \E s \in SectionTable : s.backend_uuid = b /\ s.remote_id = rid
  THEN (CHOOSE s \in SectionTable :
          s.backend_uuid = b /\ s.remote_id = rid).uuid
  ELSE None

\* SectionRepository::get_remote_id
SectionGetRemoteId(uuid) ==
  IF \E s \in SectionTable : s.uuid = uuid
  THEN (CHOOSE s \in SectionTable : s.uuid = uuid).remote_id
  ELSE None

\* local parent uuid from the remote parent id (best effort)
LookupParentUuid(ts, b, rid) ==
  IF rid = None THEN None
  ELSE IF TaskRowsByRemoteId(ts, b, rid) # {}
  THEN CHOOSE u \in TaskRowsByRemoteId(ts, b, rid) : TRUE
  ELSE None

\* TaskRepository::update
TaskUpdate(ts, row) == [ts EXCEPT ![row.uuid] = row]

\* TaskRepository::delete with the storage-level cascade to subtasks
RECURSIVE Descendants(_, _)
Descendants(ts, roots) ==
  LET more == { u \in DOMAIN ts : ts[u].parent_uuid \in roots } \ roots
  IN IF more = {} THEN roots ELSE Descendants(ts, roots \cup more)

TaskDelete(ts, uuid) ==
  [u \in DOMAIN ts \ Descendants(ts, {uuid}) |-> ts[u]]

\* ------------------------------------------------------------------------
\* Arguments the callers pass
\* ------------------------------------------------------------------------
Contents == {"User content"}
Descriptions == {"User description"}
DueStrings == {"tomorrow"}
\* the Option<&str> arguments of create_task
OptDescriptions == Descriptions \cup {None}
OptDueStrings == DueStrings \cup {None}
\* due_date: Option<&str>, a date or the request to clear it
DueDates == {"2026-04-01", None}
Priorities == {4}
\* a local project id no row carries
UnknownProject == "p9"
\* a local task id no row carries
UnknownTask == "t0"

ProjectUpdateIntents ==
  {Unchanged, SetProject("p2"), SetProject(UnknownProject), MoveToInbox}

\* ------------------------------------------------------------------------
\* Requests sent to the remote gateway
\* ------------------------------------------------------------------------
\* crate::backend::UpdateTaskArgs with every field absent (an Option<i32> is
\* the empty or the one-element sequence)
NoUpdateArgs ==
  [content |-> None, description |-> None, priority |-> <<>>,
   due_date |-> None, due_datetime |-> None, duration |-> None,
   project_remote_id |-> None, section_remote_id |-> None,
   parent_remote_id |-> None, due_string |-> None, labels |-> None]

UpdateRequest(rid, args) ==
  [kind |-> "update_task", remote_id |-> rid, args |-> args]
CreateRequest(args) == [kind |-> "create_task", args |-> args]
CompleteRequest(rid) == [kind |-> "complete_task", remote_id |-> rid]
DeleteRequest(rid) == [kind |-> "delete_task", remote_id |-> rid]
ReopenRequest(rid) == [kind |-> "reopen_task", remote_id |-> rid]

\* ------------------------------------------------------------------------
\* create_task
\* ------------------------------------------------------------------------
\* create_task going on without a project when the lookup fails
CreateResolveProject_Lenient(projs, project_uuid) ==
  IF project_uuid # None /\ ProjectGetRemoteId(projs, project_uuid).ok
  THEN ProjectGetRemoteId(projs, project_uuid)
  ELSE Ok(None)

\* the project lookup under the first lock
CreateResolveProject(projs, project_uuid) ==
  IF project_uuid # None THEN ProjectGetRemoteId(projs, project_uuid)
  ELSE Ok(None)

\* the absent project passed on as it is
UnwrapOrDefault_KeepsNone(opt) == opt

\* remote_project_id.unwrap_or_default()
UnwrapOrDefault(opt) == IF opt = None THEN "" ELSE opt

CreateTaskArgs(content, description, due_string, remote_project_id) ==
  [content |-> content, description |-> description,
   priority |-> <<>>,
   due_date |-> None, due_datetime |-> None, duration |-> None,
   project_remote_id |-> UnwrapOrDefault(remote_project_id),
   section_remote_id |-> None, parent_remote_id |-> None,
   due_string |-> due_string, labels |-> <<>>]

\* task::ActiveModel built from the backend's task
NewTaskRow(uuid, bt, project_uuid, section_uuid, parent_uuid) ==
  [uuid |-> uuid, backend_uuid |-> SelfBackend, remote_id |-> bt.remote_id,
   content |-> bt.content, description |-> bt.description,
   project_uuid |-> project_uuid, section_uuid |-> section_uuid,
   parent_uuid |-> parent_uuid, priority |-> bt.priority,
   order_index |-> bt.order_index, due_date |-> bt.due_date,
   due_datetime |-> bt.due_datetime, is_recurring |-> bt.is_recurring,
   deadline |-> bt.deadline, duration |-> bt.duration,
   is_completed |-> bt.is_completed, is_deleted |-> FALSE]

\* the insert without its on_conflict clause, on a table without the index
UpsertTask_PlainInsert(ts, row) == ts @@ (row.uuid :> row)

\* insert .. on_conflict(backend_uuid, remote_id) update_columns(..): the row
\* in conflict keeps its uuid and takes every other column of the new row
UpsertTask(ts, row) ==
  LET hit == TaskRowsByRemoteId(ts, row.backend_uuid, row.remote_id)
  IN IF hit = {} THEN ts @@ (row.uuid :> row)
     ELSE LET u == CHOOSE x \in hit : TRUE
          IN [ts EXCEPT ![u] = [row EXCEPT !.uuid = u]]

\* create_task inserting the row outside the transaction, ahead of the
\* project lookup
CreateLocal_InsertFirst(ts, projs, bt, fresh) ==
  LET pu == LookupProjectUuid(projs, SelfBackend, bt.project_remote_id,
                              "task creation")
      row == NewTaskRow(fresh, bt, IF pu.ok THEN pu.val ELSE None,
                LookupSectionUuid(SelfBackend, bt.section_remote_id),
                LookupParentUuid(ts, SelfBackend, bt.parent_remote_id))
  IN [ok |-> pu.ok,
      msg |-> IF pu.ok THEN <<>> ELSE pu.msg,
      tasks |-> UpsertTask(ts, row)]

\* the local transaction of create_task
CreateLocal(ts, projs, bt, fresh) ==
  LET pu == LookupProjectUuid(projs, SelfBackend, bt.project_remote_id,
                              "task creation")
  IN IF ~pu.ok THEN [ok |-> FALSE, msg |-> pu.msg, tasks |-> ts]
     ELSE [ok |-> TRUE,
           msg |-> <<>>,
           tasks |-> UpsertTask(ts,
              NewTaskRow(fresh, bt, pu.val,
                 LookupSectionUuid(SelfBackend, bt.section_remote_id),
                 LookupParentUuid(ts, SelfBackend, bt.parent_remote_id)))]

\* ------------------------------------------------------------------------
\* update_task_full
\* ------------------------------------------------------------------------
\* update_task_full resolving MoveToInbox over the projects of every backend
UpdateFullResolveProject_AnyBackend(projs, intent) ==
  IF intent.kind = "Unchanged" THEN {Ok(None)}
  ELSE IF intent.kind = "Set" THEN {ProjectGetRemoteId(projs, intent.uuid)}
  ELSE LET inbox == { p \in projs : p.is_inbox_project }
       IN IF inbox = {} THEN {Ok(None)}
          ELSE { Ok(p.remote_id) : p \in inbox }

\* update_task_full sending the inbox project when asked for no change
UpdateFullResolveProject_UnchangedAsInbox(projs, intent) ==
  LET inbox == { p \in projs : p.backend_uuid = SelfBackend
                                /\ p.is_inbox_project }
  IN IF intent.kind = "Set" THEN {ProjectGetRemoteId(projs, intent.uuid)}
     ELSE IF inbox = {} THEN {Ok(None)}
     ELSE { Ok(p.remote_id) : p \in inbox }

\* update_task_full refusing MoveToInbox when no inbox project is known
UpdateFullResolveProject_InboxRequired(projs, intent) ==
  IF intent.kind = "Unchanged" THEN {Ok(None)}
  ELSE IF intent.kind = "Set" THEN {ProjectGetRemoteId(projs, intent.uuid)}
  ELSE LET inbox == { p \in projs : p.backend_uuid = SelfBackend
                                    /\ p.is_inbox_project }
       IN IF inbox = {} THEN {Err("Inbox project not found")}
          ELSE { Ok(p.remote_id) : p \in inbox }

\* the remote project ids the intent may resolve to (.one() returns any one
\* of the rows flagged as inbox)
UpdateFullResolveProject(projs, intent) ==
  IF intent.kind = "Unchanged" THEN {Ok(None)}
  ELSE IF intent.kind = "Set" THEN {ProjectGetRemoteId(projs, intent.uuid)}
  ELSE LET inbox == { p \in projs : p.backend_uuid = SelfBackend
                                    /\ p.is_inbox_project }
       IN IF inbox = {} THEN {Ok(None)}
          ELSE { Ok(p.remote_id) : p \in inbox }

UpdateFullArgs(content, description, due_string, project_remote_id) ==
  [NoUpdateArgs EXCEPT !.content = content, !.description = description,
                       !.project_remote_id = project_remote_id,
                       !.due_string = due_string]

\* apply_backend_due_fields keeping a stored value the backend does not
\* report
ApplyBackendDueFields_KeepsWhenAbsent(row, bt) ==
  [row EXCEPT !.due_date = IF bt.due_date = None THEN @ ELSE bt.due_date,
              !.due_datetime =
                 IF bt.due_datetime = None THEN @ ELSE bt.due_datetime,
              !.is_recurring = bt.is_recurring,
              !.deadline = IF bt.deadline = None THEN @ ELSE bt.deadline]

\* apply_backend_due_fields leaving the deadline column as it was
ApplyBackendDueFields_NoDeadline(row, bt) ==
  [row EXCEPT !.due_date = bt.due_date, !.due_datetime = bt.due_datetime,
              !.is_recurring = bt.is_recurring]

\* SyncService::apply_backend_due_fields
ApplyBackendDueFields(row, bt) ==
  [row EXCEPT !.due_date = bt.due_date, !.due_datetime = bt.due_datetime,
              !.is_recurring = bt.is_recurring, !.deadline = bt.deadline]

\* the error of a backend project that has no local row
UpdateFullMappingError(rid) ==
  <<"Project with remote_id ", rid,
    " not found locally during task update. Please sync projects first.">>

\* update_task_full resolving the answer's project over every backend
UpdateFullLocal_AnyBackend(ts, projs, task_uuid, bt) ==
  IF task_uuid \notin DOMAIN ts THEN [ok |-> TRUE, msg |-> <<>>, tasks |-> ts]
  ELSE LET am == [ApplyBackendDueFields(ts[task_uuid], bt)
                    EXCEPT !.content = bt.content,
                           !.description = bt.description]
           found == { p \in projs : p.remote_id = bt.project_remote_id }
       IN IF found = {}
          THEN [ok |-> FALSE,
                msg |-> UpdateFullMappingError(bt.project_remote_id),
                tasks |-> ts]
          ELSE [ok |-> TRUE,
                msg |-> <<>>,
                tasks |-> TaskUpdate(ts,
                   [am EXCEPT !.project_uuid =
                                 (CHOOSE p \in found : TRUE).uuid])]

\* update_task_full treating a row that is gone as an error
UpdateFullLocal_MissingRowFails(ts, projs, task_uuid, bt) ==
  IF task_uuid \notin DOMAIN ts
  THEN [ok |-> FALSE, msg |-> <<"Task not found: ", task_uuid>>, tasks |-> ts]
  ELSE LET am == [ApplyBackendDueFields(ts[task_uuid], bt)
                    EXCEPT !.content = bt.content,
                           !.description = bt.description]
           found == ProjectsByRemoteId(projs, SelfBackend,
                                       bt.project_remote_id)
       IN IF found = {}
          THEN [ok |-> FALSE,
                msg |-> UpdateFullMappingError(bt.project_remote_id),
                tasks |-> ts]
          ELSE [ok |-> TRUE,
                msg |-> <<>>,
                tasks |-> TaskUpdate(ts,
                   [am EXCEPT !.project_uuid =
                                 (CHOOSE p \in found : TRUE).uuid])]

\* update_task_full persisting the row before the project is resolved
UpdateFullLocal_WriteFirst(ts, projs, task_uuid, bt) ==
  IF task_uuid \notin DOMAIN ts THEN [ok |-> TRUE, msg |-> <<>>, tasks |-> ts]
  ELSE LET am == [ApplyBackendDueFields(ts[task_uuid], bt)
                    EXCEPT !.content = bt.content,
                           !.description = bt.description]
           found == ProjectsByRemoteId(projs, SelfBackend,
                                       bt.project_remote_id)
       IN IF found = {}
          THEN [ok |-> FALSE, msg |-> UpdateFullMappingError(bt.project_remote_id),
                tasks |-> TaskUpdate(ts, am)]
          ELSE [ok |-> TRUE,
                msg |-> <<>>,
                tasks |-> TaskUpdate(ts,
                   [am EXCEPT !.project_uuid =
                                 (CHOOSE p \in found : TRUE).uuid])]

\* the local read-modify-write of update_task_full
UpdateFullLocal(ts, projs, task_uuid, bt) ==
  IF task_uuid \notin DOMAIN ts THEN [ok |-> TRUE, msg |-> <<>>, tasks |-> ts]
  ELSE LET am == [ApplyBackendDueFields(ts[task_uuid], bt)
                    EXCEPT !.content = bt.content,
                           !.description = bt.description]
           found == ProjectsByRemoteId(projs, SelfBackend,
                                       bt.project_remote_id)
       IN IF found = {}
          THEN [ok |-> FALSE, msg |-> UpdateFullMappingError(bt.project_remote_id),
                tasks |-> ts]
          ELSE [ok |-> TRUE,
                msg |-> <<>>,
                tasks |-> TaskUpdate(ts,
                   [am EXCEPT !.project_uuid =
                                 (CHOOSE p \in found : TRUE).uuid])]

\* ------------------------------------------------------------------------
\* single-field updates, complete, delete
\* ------------------------------------------------------------------------
DueDateArgs(due_date) == [NoUpdateArgs EXCEPT !.due_date = due_date]
DueStringArgs(due_string) == [NoUpdateArgs EXCEPT !.due_string = due_string]
PriorityArgs(priority) == [NoUpdateArgs EXCEPT !.priority = <<priority>>]

\* a due date written only into a row that has none yet
DueDateLocal_OnlyIfAbsent(ts, task_uuid, due_date) ==
  IF task_uuid \notin DOMAIN ts THEN ts
  ELSE IF ts[task_uuid].due_date # None THEN ts
  ELSE TaskUpdate(ts, [ts[task_uuid] EXCEPT !.due_date = due_date])

\* a due date written together with a reset of the other due columns
DueDateLocal_ResetsDueFields(ts, task_uuid, due_date) ==
  IF task_uuid \notin DOMAIN ts THEN ts
  ELSE TaskUpdate(ts, [ts[task_uuid] EXCEPT !.due_date = due_date,
                                            !.due_datetime = None,
                                            !.is_recurring = FALSE,
                                            !.deadline = None])

\* the local step of update_task_due_date
DueDateLocal(ts, task_uuid, due_date) ==
  IF task_uuid \notin DOMAIN ts THEN ts
  ELSE TaskUpdate(ts, [ts[task_uuid] EXCEPT !.due_date = due_date])

DueStringLocal(ts, task_uuid, bt) ==
  IF task_uuid \notin DOMAIN ts THEN ts
  ELSE TaskUpdate(ts, ApplyBackendDueFields(ts[task_uuid], bt))

\* a priority update that writes a whole row built without the stored values
PriorityLocal_WholeRow(ts, task_uuid, priority) ==
  IF task_uuid \notin DOMAIN ts THEN ts
  ELSE TaskUpdate(ts, [ts[task_uuid] EXCEPT !.priority = priority,
                                            !.due_date = None,
                                            !.is_completed = FALSE])

PriorityLocal(ts, task_uuid, priority) ==
  IF task_uuid \notin DOMAIN ts THEN ts
  ELSE TaskUpdate(ts, [ts[task_uuid] EXCEPT !.priority = priority])

\* the completion carried over to the subtasks, as the remote side does
CompleteLocal_Cascading(ts, task_uuid) ==
  IF task_uuid \notin DOMAIN ts THEN ts
  ELSE [u \in DOMAIN ts |->
          IF u \in Descendants(ts, {task_uuid})
          THEN [ts[u] EXCEPT !.is_completed = TRUE] ELSE ts[u]]

\* the local step of complete_task
CompleteLocal(ts, task_uuid) ==
  IF task_uuid \notin DOMAIN ts THEN ts
  ELSE TaskUpdate(ts, [ts[task_uuid] EXCEPT !.is_completed = TRUE])

\* the row removed instead of flagged
DeleteLocal_HardDelete(ts, task_uuid) ==
  IF task_uuid \notin DOMAIN ts THEN ts ELSE TaskDelete(ts, task_uuid)

\* the local step of delete_task
DeleteLocal(ts, task_uuid) ==
  IF task_uuid \notin DOMAIN ts THEN ts
  ELSE TaskUpdate(ts, [ts[task_uuid] EXCEPT !.is_deleted = TRUE])

\* ------------------------------------------------------------------------
\* restore_task
\* ------------------------------------------------------------------------
\* the error of restore_task without the id of the task
RestoreNotFound_Anonymous(task_id) == <<"Task not found in local storage">>

\* ok_or_else(|| anyhow!("Task not found in local storage: {}", task_id))
RestoreNotFound(task_id) == <<"Task not found in local storage: ", task_id>>

\* description.clone().filter(|d| !d.is_empty())
NonEmpty(description) == IF description = "" THEN None ELSE description

\* the lookups of the recreate branch, made before the lock is dropped
RestoreRemoteIds(ts, projs, task) ==
  LET rp == ProjectGetRemoteId(projs, task.project_uuid)
      rs == IF task.section_uuid # None
            THEN SectionGetRemoteId(task.section_uuid) ELSE None
      ra == IF task.parent_uuid # None
            THEN TaskGetRemoteId(ts, task.parent_uuid) ELSE Ok(None)
  IN IF ~rp.ok THEN rp
     ELSE IF ~ra.ok THEN ra
     ELSE Ok([project |-> rp.val, section |-> rs, parent |-> ra.val])

RestoreCreateArgs(task, remote) ==
  [content |-> task.content, description |-> NonEmpty(task.description),
   priority |-> <<task.priority>>, due_date |-> task.due_date,
   due_datetime |-> task.due_datetime, duration |-> task.duration,
   project_remote_id |-> remote.project, section_remote_id |-> remote.section,
   parent_remote_id |-> remote.parent, due_string |-> None, labels |-> <<>>]

\* restore_task leaving the soft-deleted row in the table
RestoreDeleteOld_KeepsRow(ts, task_id) == ts

\* the hard delete of the old row, made on the connection itself
RestoreDeleteOld(ts, task_id) ==
  IF task_id \in DOMAIN ts THEN TaskDelete(ts, task_id) ELSE ts

\* the local writes of the recreate branch: the delete, then the transaction
\* that looks the project up and upserts the new row
RestoreRecreateLocal(ts, projs, task_id, new_task, fresh) ==
  LET ts1 == RestoreDeleteOld(ts, task_id)
      pu == LookupProjectUuid(projs, SelfBackend, new_task.project_remote_id,
                              "task restore")
  IN IF ~pu.ok THEN [ok |-> FALSE, msg |-> pu.msg, tasks |-> ts1]
     ELSE [ok |-> TRUE,
           msg |-> <<>>,
           tasks |-> UpsertTask(ts1,
              NewTaskRow(fresh, new_task, pu.val,
                 LookupSectionUuid(SelfBackend, new_task.section_remote_id),
                 LookupParentUuid(ts1, SelfBackend,
                                  new_task.parent_remote_id)))]

\* the reopen branch without its local write
RestoreReopenLocal_RemoteOnly(ts, task_id) == ts

\* the local write of the reopen branch
RestoreReopenLocal(ts, task_id) ==
  IF task_id \notin DOMAIN ts THEN ts
  ELSE TaskUpdate(ts, [ts[task_id] EXCEPT !.is_completed = FALSE])

\* ------------------------------------------------------------------------
\* State
\* ------------------------------------------------------------------------
VARIABLES
  tasks,      \* the tasks table: local uuid -> row
  projects,   \* the projects table
  lock,       \* holder of the storage mutex, or NoHolder
  pc,         \* where each background operation stands
  op,         \* the operation each of them runs, with its arguments
  loc,        \* its local variables
  sent,       \* the requests it has sent to the gateway
  resp,       \* the gateway's answer it holds (empty before the answer)
  result,     \* what it returned
  writes,     \* how many times it has changed the tasks table
  nextUuid,   \* number of the next local uuid
  started,    \* operations started so far
  ignored,    \* intents the handler answered without starting anything
  surfaced,   \* outcomes the task runner has handed to the interface
  failure,       \* the failure handled last: its internal text, its fallback
  error_message, \* AppState.error_message: the text of the error dialog
  view,          \* what get_tasks_for_today returned last
  dialog,        \* the task dialog (DialogComponent)
  emitted,       \* the action the dialog emitted last
  app,           \* AppComponent: its sync marker and flags, the help panel
  background     \* the task manager: its sync tasks, its channel, its loads

\* the state of the synchronisation core and of its task runner
syncVars == <<tasks, projects, lock, pc, op, loc, sent, resp, result, writes,
          nextUuid, started, ignored, surfaced>>

\* the state of the interface
uiVars == <<failure, error_message, view, dialog, emitted, app, background>>

vars == <<syncVars, uiVars>>

NoOp == [kind |-> "none"]
\* DialogComponent with dialog_type None
NoDialog == [kind |-> "none"]
NoLoc == [remote_id |-> None, task |-> <<>>, request |-> <<>>]
NoResult == [ok |-> TRUE, msg |-> <<>>, set |-> FALSE]
Success == [ok |-> TRUE, msg |-> <<>>, set |-> TRUE]
Failure(m) == [ok |-> FALSE, msg |-> m, set |-> TRUE]

\* local task ids a caller may address
Targets == DOMAIN tasks \cup {UnknownTask}

\* no background operation has been started
ProcsIdle ==
  /\ lock = NoHolder
  /\ pc = [p \in Procs |-> "idle"]
  /\ op = [p \in Procs |-> NoOp]
  /\ loc = [p \in Procs |-> NoLoc]
  /\ sent = [p \in Procs |-> <<>>]
  /\ resp = [p \in Procs |-> <<>>]
  /\ result = [p \in Procs |-> NoResult]
  /\ writes = [p \in Procs |-> 0]
  /\ nextUuid = 2
  /\ started = 0
  /\ ignored = 0
  /\ surfaced = 0

\* AppComponent::new: no sync is marked active, the help panel is closed.
\* panicked is not a field: it says that the process has aborted
AppNew ==
  [is_initial_sync |-> FALSE, active_sync_task |-> <<>>, loading |-> FALSE,
   info_message |-> <<>>, ignored_syncs |-> 0,
   show_help |-> FALSE, help_scroll_offset |-> 0, panicked |-> FALSE]

\* TaskManager::new: no task runs, nothing waits in the channel, no data
\* load has been spawned
BackgroundIdle ==
  [debug_mode |-> FALSE, sync_tasks |-> {}, channel |-> <<>>,
   data_loads |-> <<>>, spawned |-> 0]

\* nothing has failed, no view has been loaded, no dialog is open
UiQuiet ==
  /\ failure = <<>>
  /\ error_message = <<>>
  /\ view = <<>>
  /\ dialog = NoDialog
  /\ emitted = <<>>

\* no dialog is open, nothing has failed, no view has been loaded
UiIdle ==
  /\ UiQuiet
  /\ app = AppNew
  /\ background = BackgroundIdle

\* the store holds the seeded task, live, completed, deleted or both, or the
\* live task and its subtask; this instance has an inbox project, or (with
\* the live task alone) it has none
Init ==
  /\ \/ \E del \in BOOLEAN, comp \in BOOLEAN :
          tasks = ("t1" :> SeedTask(del, comp))
     \/ tasks = ("t1" :> SeedTask(FALSE, FALSE)) @@ ("c1" :> SeedSubtask)
  /\ \E inbox \in {{"p3"}, {"p2", "p3"}} :
       /\ projects = ProjectTable(inbox)
       /\ inbox = {"p3"} => tasks = ("t1" :> SeedTask(FALSE, FALSE))
  /\ ProcsIdle
  /\ UiIdle

\* a guard that outlives its block
ReleaseLock_Kept(holder, p) == holder

\* MutexGuard going out of scope, or drop(storage)
ReleaseLock(holder, p) == IF holder = p THEN NoHolder ELSE holder

\* ------------------------------------------------------------------------
\* The task runner starts an operation
\* ------------------------------------------------------------------------
Begin(p, o) ==
  /\ pc[p] = "idle"
  /\ \A q \in Procs : q < p => pc[q] # "idle"
  /\ started + ignored < MaxOps
  /\ started' = started + 1
  /\ op' = [op EXCEPT ![p] = o]
  /\ pc' = [pc EXCEPT ![p] = "lock1"]
  /\ UNCHANGED <<tasks, projects, lock, loc, sent, resp, result, writes,
                 nextUuid, ignored, surfaced, uiVars>>

\* the description and the due string are given together or not at all,
\* and the call that names an unknown project gives neither
StartCreate(p) ==
  \E c \in Contents, d \in OptDescriptions, ds \in OptDueStrings,
     pu \in {None, "p2", UnknownProject} :
    /\ (d = None) = (ds = None)
    /\ pu = UnknownProject => d = None
    /\ Begin(p, [kind |-> "create_task", content |-> c, description |-> d,
              project_uuid |-> pu, due_string |-> ds])

\* an unknown task is addressed with the intent Unchanged only
StartUpdateFull(p) ==
  \E t \in Targets, c \in Contents, d \in Descriptions, ds \in DueStrings,
     i \in ProjectUpdateIntents :
    /\ t = UnknownTask => i = Unchanged
    /\ Begin(p, [kind |-> "update_task_full", content |-> c, description |-> d,
              due_string |-> ds, task_uuid |-> t, project_update |-> i])

StartUpdateDueDate(p) ==
  \E t \in Targets, dd \in DueDates :
    Begin(p, [kind |-> "update_task_due_date", due_date |-> dd,
              task_uuid |-> t])

StartUpdateDueString(p) ==
  \E t \in Targets, ds \in DueStrings :
    Begin(p, [kind |-> "update_task_due_string", due_string |-> ds,
              task_uuid |-> t])

StartUpdatePriority(p) ==
  \E t \in Targets, pr \in Priorities :
    Begin(p, [kind |-> "update_task_priority", priority |-> pr,
              task_uuid |-> t])

StartComplete(p) ==
  \E t \in Targets : Begin(p, [kind |-> "complete_task", task_uuid |-> t])

StartDelete(p) ==
  \E t \in Targets : Begin(p, [kind |-> "delete_task", task_uuid |-> t])

StartRestore(p) ==
  \E t \in Targets : Begin(p, [kind |-> "restore_task", task_uuid |-> t])

\* ------------------------------------------------------------------------
\* Steps of an operation
\* ------------------------------------------------------------------------
\* a lock that is handed over without waiting for its holder
Acquire_Barging(p) ==
  /\ pc[p] \in {"lock1", "lock2", "lock3"}
  /\ lock' = p
  /\ pc' = [pc EXCEPT ![p] = CASE pc[p] = "lock1" -> "read1"
                                [] pc[p] = "lock2" -> "read2"
                                [] pc[p] = "lock3" -> "write"]
  /\ UNCHANGED <<tasks, projects, op, loc, sent, resp, result, writes,
                 nextUuid, started,
                 ignored, surfaced, uiVars>>

\* self.storage.lock().await
Acquire(p) ==
  /\ pc[p] \in {"lock1", "lock2", "lock3"}
  /\ lock = NoHolder
  /\ lock' = p
  /\ pc' = [pc EXCEPT ![p] = CASE pc[p] = "lock1" -> "read1"
                                [] pc[p] = "lock2" -> "read2"
                                [] pc[p] = "lock3" -> "write"]
  /\ UNCHANGED <<tasks, projects, op, loc, sent, resp, result, writes,
                 nextUuid, started,
                 ignored, surfaced, uiVars>>

\* an error return that leaves the guard alive
FailEarly_HoldsLock(p, m) ==
  /\ result' = [result EXCEPT ![p] = Failure(m)]
  /\ pc' = [pc EXCEPT ![p] = "done"]
  /\ UNCHANGED <<tasks, projects, lock, op, loc, sent, resp, writes,
                 nextUuid, started,
                 ignored, surfaced, uiVars>>

\* an early return with an error before the remote call
FailEarly(p, m) ==
  /\ result' = [result EXCEPT ![p] = Failure(m)]
  /\ pc' = [pc EXCEPT ![p] = "done"]
  /\ lock' = ReleaseLock(lock, p)
  /\ UNCHANGED <<tasks, projects, op, loc, sent, resp, writes, nextUuid,
                 started,
                 ignored, surfaced, uiVars>>

\* delete_task flagging the row before the remote delete is sent
Prepared_OptimisticWrite(p, l) ==
  /\ loc' = [loc EXCEPT ![p] = l]
  /\ pc' = [pc EXCEPT ![p] = "call"]
  /\ lock' = ReleaseLock(lock, p)
  /\ tasks' = IF op[p].kind = "delete_task"
              THEN DeleteLocal(tasks, op[p].task_uuid) ELSE tasks
  /\ UNCHANGED <<projects, op, sent, resp, result, writes, nextUuid,
                 started,
                 ignored, surfaced, uiVars>>

\* the guard is dropped and the request is ready to be sent
Prepared(p, l) ==
  /\ loc' = [loc EXCEPT ![p] = l]
  /\ pc' = [pc EXCEPT ![p] = "call"]
  /\ lock' = ReleaseLock(lock, p)
  /\ UNCHANGED <<tasks, projects, op, sent, resp, result, writes, nextUuid,
                 started,
                 ignored, surfaced, uiVars>>

\* create_task: the project lookup and the arguments of the remote create
ReadCreate(p) ==
  /\ pc[p] = "read1"
  /\ op[p].kind = "create_task"
  /\ LET r == CreateResolveProject(projects, op[p].project_uuid)
     IN IF ~r.ok THEN FailEarly(p, r.msg)
        ELSE Prepared(p, [loc[p] EXCEPT !.request =
               <<CreateRequest(CreateTaskArgs(op[p].content,
                   op[p].description, op[p].due_string, r.val))>>])

\* the request of the operations that address a task by its remote id
SimpleRequest(o, rid) ==
  CASE o.kind = "update_task_due_date" ->
         UpdateRequest(rid, DueDateArgs(o.due_date))
    [] o.kind = "update_task_due_string" ->
         UpdateRequest(rid, DueStringArgs(o.due_string))
    [] o.kind = "update_task_priority" ->
         UpdateRequest(rid, PriorityArgs(o.priority))
    [] o.kind = "complete_task" -> CompleteRequest(rid)
    [] o.kind = "delete_task" -> DeleteRequest(rid)

\* get_task_remote_id, which takes and drops the lock by itself
ReadRemoteId(p) ==
  /\ pc[p] = "read1"
  /\ op[p].kind \in {"update_task_full", "update_task_due_date",
                     "update_task_due_string", "update_task_priority",
                     "complete_task", "delete_task"}
  /\ LET r == TaskGetRemoteId(tasks, op[p].task_uuid)
     IN IF ~r.ok THEN FailEarly(p, r.msg)
        ELSE IF op[p].kind = "update_task_full"
        THEN /\ loc' = [loc EXCEPT ![p].remote_id = r.val]
             /\ pc' = [pc EXCEPT ![p] = "lock2"]
             /\ lock' = ReleaseLock(lock, p)
             /\ UNCHANGED <<tasks, projects, op, sent, resp, result, writes,
                            nextUuid, started,
                            ignored, surfaced, uiVars>>
        ELSE Prepared(p, [loc[p] EXCEPT !.remote_id = r.val,
                            !.request = <<SimpleRequest(op[p], r.val)>>])

\* update_task_full: the project argument, resolved under the second lock
ReadProject(p) ==
  /\ pc[p] = "read2"
  /\ op[p].kind = "update_task_full"
  /\ \E r \in UpdateFullResolveProject(projects, op[p].project_update) :
       IF ~r.ok THEN FailEarly(p, r.msg)
       ELSE Prepared(p, [loc[p] EXCEPT !.request =
              <<UpdateRequest(loc[p].remote_id,
                  UpdateFullArgs(op[p].content, op[p].description,
                                 op[p].due_string, r.val))>>])

\* a restore that recreates only rows that are deleted and not completed
ReadRestore_CompletedReopens(p) ==
  /\ pc[p] = "read1"
  /\ op[p].kind = "restore_task"
  /\ IF op[p].task_uuid \notin DOMAIN tasks
     THEN FailEarly(p, RestoreNotFound(op[p].task_uuid))
     ELSE LET task == tasks[op[p].task_uuid]
          IN IF task.is_deleted /\ ~task.is_completed
             THEN LET r == RestoreRemoteIds(tasks, projects, task)
                  IN IF ~r.ok THEN FailEarly(p, r.msg)
                     ELSE Prepared(p, [loc[p] EXCEPT !.task = <<task>>,
                            !.request =
                              <<CreateRequest(RestoreCreateArgs(task,
                                                                r.val))>>])
             ELSE Prepared(p, [loc[p] EXCEPT !.task = <<task>>,
                    !.remote_id = task.remote_id,
                    !.request = <<ReopenRequest(task.remote_id)>>])

\* restore_task: the row, the branch and the remote ids
ReadRestore(p) ==
  /\ pc[p] = "read1"
  /\ op[p].kind = "restore_task"
  /\ IF op[p].task_uuid \notin DOMAIN tasks
     THEN FailEarly(p, RestoreNotFound(op[p].task_uuid))
     ELSE LET task == tasks[op[p].task_uuid]
          IN IF task.is_deleted
             THEN LET r == RestoreRemoteIds(tasks, projects, task)
                  IN IF ~r.ok THEN FailEarly(p, r.msg)
                     ELSE Prepared(p, [loc[p] EXCEPT !.task = <<task>>,
                            !.request =
                              <<CreateRequest(RestoreCreateArgs(task,
                                                                r.val))>>])
             ELSE Prepared(p, [loc[p] EXCEPT !.task = <<task>>,
                    !.remote_id = task.remote_id,
                    !.request = <<ReopenRequest(task.remote_id)>>])

\* the request goes out to the gateway
Issue(p) ==
  /\ pc[p] = "call"
  /\ sent' = [sent EXCEPT ![p] = Append(sent[p], loc[p].request[1])]
  /\ pc' = [pc EXCEPT ![p] = "wait"]
  /\ UNCHANGED <<tasks, projects, lock, op, loc, resp, result, writes,
                 nextUuid, started,
                 ignored, surfaced, uiVars>>

\* what the gateway may answer to a request
Answers(request) ==
  CASE request.kind = "update_task" -> UpdateResponses(request.remote_id)
    [] request.kind = "create_task" -> CreateResponses
    [] OTHER -> {None}

\* the operations that bind the answer to _task and never read it
DiscardsAnswer(o) ==
  o.kind \in {"update_task_due_date", "update_task_priority"}

BackendOk(p) ==
  /\ pc[p] = "wait"
  /\ \E r \in Answers(loc[p].request[1]) :
       resp' = [resp EXCEPT ![p] = <<IF DiscardsAnswer(op[p]) THEN None ELSE r>>]
  /\ pc' = [pc EXCEPT ![p] = "lock3"]
  /\ UNCHANGED <<tasks, projects, lock, op, loc, sent, result, writes,
                 nextUuid, started,
                 ignored, surfaced, uiVars>>

\* the gateway's error dropped instead of returned
BackendErr_ReturnsOk(p) ==
  /\ pc[p] = "wait"
  /\ result' = [result EXCEPT ![p] = Success]
  /\ pc' = [pc EXCEPT ![p] = "done"]
  /\ UNCHANGED <<tasks, projects, lock, op, loc, sent, resp, writes,
                 nextUuid, started,
                 ignored, surfaced, uiVars>>

\* the gateway answers with an error: map_err(..)? returns it to the caller
BackendErr(p) ==
  /\ pc[p] = "wait"
  /\ \E e \in BackendErrors :
       result' = [result EXCEPT ![p] = Failure(BackendErrorMsg(e))]
  /\ pc' = [pc EXCEPT ![p] = "done"]
  /\ UNCHANGED <<tasks, projects, lock, op, loc, sent, resp, writes,
                 nextUuid, started,
                 ignored, surfaced, uiVars>>

\* the local writes are applied, the guard is dropped, the operation returns
Commit(p, out, uuids) ==
  /\ tasks' = out.tasks
  /\ writes' = [writes EXCEPT ![p] = IF out.tasks # tasks THEN @ + 1 ELSE @]
  /\ result' = [result EXCEPT ![p] =
                  IF out.ok THEN Success ELSE Failure(out.msg)]
  /\ nextUuid' = nextUuid + uuids
  /\ pc' = [pc EXCEPT ![p] = "done"]
  /\ lock' = ReleaseLock(lock, p)
  /\ UNCHANGED <<projects, op, loc, sent, resp, started,
                 ignored, surfaced, uiVars>>

Done(ts) == [ok |-> TRUE, msg |-> <<>>, tasks |-> ts]

WriteCreate(p) ==
  /\ pc[p] = "write" /\ op[p].kind = "create_task"
  /\ LET out == CreateLocal(tasks, projects, resp[p][1], NewUuid(nextUuid))
     IN Commit(p, out, IF out.ok THEN 1 ELSE 0)

WriteUpdateFull(p) ==
  /\ pc[p] = "write" /\ op[p].kind = "update_task_full"
  /\ Commit(p, UpdateFullLocal(tasks, projects, op[p].task_uuid, resp[p][1]), 0)

WriteDueDate(p) ==
  /\ pc[p] = "write" /\ op[p].kind = "update_task_due_date"
  /\ Commit(p, Done(DueDateLocal(tasks, op[p].task_uuid, op[p].due_date)), 0)

WriteDueString(p) ==
  /\ pc[p] = "write" /\ op[p].kind = "update_task_due_string"
  /\ Commit(p, Done(DueStringLocal(tasks, op[p].task_uuid, resp[p][1])), 0)

WritePriority(p) ==
  /\ pc[p] = "write" /\ op[p].kind = "update_task_priority"
  /\ Commit(p, Done(PriorityLocal(tasks, op[p].task_uuid, op[p].priority)), 0)

WriteComplete(p) ==
  /\ pc[p] = "write" /\ op[p].kind = "complete_task"
  /\ Commit(p, Done(CompleteLocal(tasks, op[p].task_uuid)), 0)

WriteDelete(p) ==
  /\ pc[p] = "write" /\ op[p].kind = "delete_task"
  /\ Commit(p, Done(DeleteLocal(tasks, op[p].task_uuid)), 0)

WriteRestoreRecreate(p) ==
  /\ pc[p] = "write" /\ op[p].kind = "restore_task"
  /\ loc[p].request[1].kind = "create_task"
  /\ LET out == RestoreRecreateLocal(tasks, projects, op[p].task_uuid,
                                     resp[p][1], NewUuid(nextUuid))
     IN Commit(p, out, IF out.ok THEN 1 ELSE 0)

WriteRestoreReopen(p) ==
  /\ pc[p] = "write" /\ op[p].kind = "restore_task"
  /\ loc[p].request[1].kind = "reopen_task"
  /\ Commit(p, Done(RestoreReopenLocal(tasks, op[p].task_uuid)), 0)

\* get_task_by_id: the row of a local id, read under the storage mutex
GetTaskById(ts, uuid) == IF uuid \in DOMAIN ts THEN <<ts[uuid]>> ELSE <<>>

\* Action::CompleteTask or Action::CyclePriority for a task the local store
\* does not hold: the handler writes a log line and returns Action::None;
\* no operation is handed to the task runner
IgnoreIntent(t) ==
  /\ lock = NoHolder
  /\ started + ignored < MaxOps
  /\ GetTaskById(tasks, t) = <<>>
  /\ ignored' = ignored + 1
  /\ UNCHANGED <<tasks, projects, lock, pc, op, loc, sent, resp, result,
                 writes, nextUuid, started, surfaced, uiVars>>

\* the task runner has taken the result and queued one dialog for it
Finish(p) ==
  /\ pc[p] = "done"
  /\ pc' = [pc EXCEPT ![p] = "idle"]
  /\ op' = [op EXCEPT ![p] = NoOp]
  /\ loc' = [loc EXCEPT ![p] = NoLoc]
  /\ sent' = [sent EXCEPT ![p] = <<>>]
  /\ resp' = [resp EXCEPT ![p] = <<>>]
  /\ result' = [result EXCEPT ![p] = NoResult]
  /\ writes' = [writes EXCEPT ![p] = 0]
  /\ surfaced' = surfaced + 1
  /\ UNCHANGED <<tasks, projects, lock, nextUuid, started, ignored, uiVars>>

Next ==
  \/ \E p \in Procs :
      \/ StartCreate(p)
      \/ StartUpdateFull(p)
      \/ StartUpdateDueDate(p)
      \/ StartUpdateDueString(p)
      \/ StartUpdatePriority(p)
      \/ StartComplete(p)
      \/ StartDelete(p)
      \/ StartRestore(p)
      \/ Acquire(p)
      \/ ReadCreate(p)
      \/ ReadRemoteId(p)
      \/ ReadProject(p)
      \/ ReadRestore(p)
      \/ Issue(p)
      \/ BackendOk(p)
      \/ BackendErr(p)
      \/ WriteCreate(p)
      \/ WriteUpdateFull(p)
      \/ WriteDueDate(p)
      \/ WriteDueString(p)
      \/ WritePriority(p)
      \/ WriteComplete(p)
      \/ WriteDelete(p)
      \/ WriteRestoreRecreate(p)
      \/ WriteRestoreReopen(p)
      \/ Finish(p)
  \/ \E t \in Targets : IgnoreIntent(t)

Spec == Init /\ [][Next]_vars

\* ------------------------------------------------------------------------
\* The operations of one kind, running against each other
\* ------------------------------------------------------------------------
CreateNext ==
  \E p \in Procs :
    \/ StartCreate(p)
    \/ Acquire(p)
    \/ ReadCreate(p)
    \/ Issue(p)
    \/ BackendOk(p)
    \/ BackendErr(p)
    \/ WriteCreate(p)
    \/ Finish(p)

CreateSpec == Init /\ [][CreateNext]_vars

UpdateFullNext ==
  \E p \in Procs :
    \/ StartUpdateFull(p)
    \/ Acquire(p)
    \/ ReadRemoteId(p)
    \/ ReadProject(p)
    \/ Issue(p)
    \/ BackendOk(p)
    \/ BackendErr(p)
    \/ WriteUpdateFull(p)
    \/ Finish(p)

UpdateFullSpec == Init /\ [][UpdateFullNext]_vars

\* update_task_due_date and update_task_priority
OneFieldNext ==
  \E p \in Procs :
    \/ StartUpdateDueDate(p)
    \/ StartUpdatePriority(p)
    \/ Acquire(p)
    \/ ReadRemoteId(p)
    \/ Issue(p)
    \/ BackendOk(p)
    \/ BackendErr(p)
    \/ WriteDueDate(p)
    \/ WritePriority(p)
    \/ Finish(p)

OneFieldSpec == Init /\ [][OneFieldNext]_vars

DueStringNext ==
  \E p \in Procs :
    \/ StartUpdateDueString(p)
    \/ Acquire(p)
    \/ ReadRemoteId(p)
    \/ Issue(p)
    \/ BackendOk(p)
    \/ BackendErr(p)
    \/ WriteDueString(p)
    \/ Finish(p)

DueStringSpec == Init /\ [][DueStringNext]_vars

\* complete_task and delete_task
CompleteDeleteNext ==
  \E p \in Procs :
    \/ StartComplete(p)
    \/ StartDelete(p)
    \/ Acquire(p)
    \/ ReadRemoteId(p)
    \/ Issue(p)
    \/ BackendOk(p)
    \/ BackendErr(p)
    \/ WriteComplete(p)
    \/ WriteDelete(p)
    \/ Finish(p)

CompleteDeleteSpec == Init /\ [][CompleteDeleteNext]_vars

RestoreNext ==
  \E p \in Procs :
    \/ StartRestore(p)
    \/ Acquire(p)
    \/ ReadRestore(p)
    \/ Issue(p)
    \/ BackendOk(p)
    \/ BackendErr(p)
    \/ WriteRestoreRecreate(p)
    \/ WriteRestoreReopen(p)
    \/ Finish(p)

RestoreSpec == Init /\ [][RestoreNext]_vars

\* ------------------------------------------------------------------------
\* Priority cycling: the interface's intent and the operation it starts
\* ------------------------------------------------------------------------
\* the priorities a stored row may carry
StoredPriorities == 1..4

\* a cycle that goes on counting after the highest priority
CyclePriority_Unbounded(priority) == priority + 1

\* a cycle that leaves out the highest priority
CyclePriority_SkipsFour(priority) == IF priority >= 3 THEN 1 ELSE priority + 1

\* match task.priority { 4 => 1, _ => task.priority + 1 }
CyclePriority(priority) == IF priority = 4 THEN 1 ELSE priority + 1

\* Action::CyclePriority for a task the local store holds: the row is read
\* under the storage mutex and update_task_priority is started with the
\* next priority
StartCyclePriority(p) ==
  /\ lock = NoHolder
  /\ \E t \in Targets :
       /\ GetTaskById(tasks, t) # <<>>
       /\ Begin(p, [kind |-> "update_task_priority",
                    priority |-> CyclePriority(GetTaskById(tasks, t)[1].priority),
                    task_uuid |-> t])

CycleInit ==
  /\ \E pr \in StoredPriorities :
       tasks = ("t1" :> [SeedTask(FALSE, FALSE) EXCEPT !.priority = pr])
  /\ projects = ProjectTable({"p2", "p3"})
  /\ ProcsIdle
  /\ UiIdle

CycleNext ==
  \/ \E p \in Procs :
       \/ StartCyclePriority(p)
       \/ Acquire(p)
       \/ ReadRemoteId(p)
       \/ Issue(p)
       \/ BackendOk(p)
       \/ BackendErr(p)
       \/ WritePriority(p)
       \/ Finish(p)
  \/ \E t \in Targets : IgnoreIntent(t)

CycleSpec == CycleInit /\ [][CycleNext]_vars

\* ------------------------------------------------------------------------
\* Error dialogs: sanitize_user_error and its callers
\* ------------------------------------------------------------------------
\* longest internal error text
MaxErrorLen == 4

\* a text is the sequence of its characters: the characters the safe
\* prefixes are written with, characters of error detail, and the blank
PrefixChars == {"a", "b"}
DetailChars == {"x", "y"}
Blank == " "
Alphabet == PrefixChars \cup DetailChars \cup {Blank}

\* the internal error texts
RawErrors == UNION { [1..n -> Alphabet] : n \in 0..MaxErrorLen }

\* two of the constants of SAFE_ERROR_PREFIXES, in the order of the list
ERROR_TASK_COMPLETION_FAILED == <<"a", "b">>
ERROR_TASK_DELETE_FAILED == <<"b", "a">>
SAFE_ERROR_PREFIXES == <<ERROR_TASK_COMPLETION_FAILED, ERROR_TASK_DELETE_FAILED>>

\* the fallback messages the callers supply
ERROR_SYNC_FAILED == <<"S">>
ERROR_OPERATION_FAILED == <<"O">>

\* str::trim
RECURSIVE TrimStart(_)
TrimStart(s) ==
  IF s # <<>> /\ Head(s) = Blank THEN TrimStart(Tail(s)) ELSE s

RECURSIVE TrimEnd(_)
TrimEnd(s) ==
  IF s # <<>> /\ s[Len(s)] = Blank THEN TrimEnd(SubSeq(s, 1, Len(s) - 1))
  ELSE s

Trim(s) == TrimEnd(TrimStart(s))

\* str::starts_with
StartsWith(s, t) == Len(t) <= Len(s) /\ SubSeq(s, 1, Len(t)) = t

\* str::contains
StrContains(s, t) ==
  \E i \in 1..(Len(s) - Len(t) + 1) : SubSeq(s, i, i + Len(t) - 1) = t

\* the sanitizer handing an unknown error through as it is
SanitizeUserError_EchoesUnknown(raw_error, fallback_message) ==
  LET trimmed == Trim(raw_error)
      hits == { i \in 1..Len(SAFE_ERROR_PREFIXES) :
                  StrContains(trimmed, SAFE_ERROR_PREFIXES[i]) }
  IN IF hits = {} THEN trimmed
     ELSE SAFE_ERROR_PREFIXES[CHOOSE i \in hits : \A j \in hits : i <= j]

\* a sanitizer that answers with the last safe prefix of the list it finds
SanitizeUserError_LastMatch(raw_error, fallback_message) ==
  LET trimmed == Trim(raw_error)
      hits == { i \in 1..Len(SAFE_ERROR_PREFIXES) :
                  StrContains(trimmed, SAFE_ERROR_PREFIXES[i]) }
  IN IF hits = {} THEN fallback_message
     ELSE SAFE_ERROR_PREFIXES[CHOOSE i \in hits : \A j \in hits : j <= i]

\* sanitize_user_error: the first safe prefix of the list that the trimmed
\* text equals, starts with or contains, else the fallback
SanitizeUserError(raw_error, fallback_message) ==
  LET trimmed == Trim(raw_error)
      hits == { i \in 1..Len(SAFE_ERROR_PREFIXES) :
                  \/ trimmed = SAFE_ERROR_PREFIXES[i]
                  \/ StartsWith(trimmed, SAFE_ERROR_PREFIXES[i])
                  \/ StrContains(trimmed, SAFE_ERROR_PREFIXES[i]) }
  IN IF hits = {} THEN fallback_message
     ELSE SAFE_ERROR_PREFIXES[CHOOSE i \in hits : \A j \in hits : i <= j]

\* the store and the task runner at rest
SyncIdle ==
  /\ tasks = ("t1" :> SeedTask(FALSE, FALSE))
  /\ projects = ProjectTable({"p2", "p3"})
  /\ ProcsIdle

\* the error dialog of a failure with the internal text error. The dialog
\* text depends on nothing but the error reported, so a behaviour reports
\* one failure
ShowError(error, fallback) ==
  /\ failure = <<>>
  /\ failure' = <<[error |-> error, fallback |-> fallback]>>
  /\ error_message' = <<SanitizeUserError(error, fallback)>>
  /\ UNCHANGED <<syncVars, view, dialog, emitted, app, background>>

\* Action::SyncFailed(error)
SyncFailed(error) == ShowError(error, ERROR_SYNC_FAILED)

\* the task runner reporting a failed background operation
TaskOperationFailed(error) == ShowError(error, ERROR_OPERATION_FAILED)

SanitizeInit == SyncIdle /\ UiIdle

SanitizeNext ==
  \E error \in RawErrors :
    \/ SyncFailed(error)
    \/ TaskOperationFailed(error)

SanitizeSpec == SanitizeInit /\ [][SanitizeNext]_vars

\* ------------------------------------------------------------------------
\* Failed operations: the error text the task runner is handed
\* ------------------------------------------------------------------------
\* the operations whose error prefixes are modelled
FailingKinds == {"complete_task", "delete_task"}

\* the constant an operation's error is formatted with
ErrorPrefix(kind) ==
  IF kind = "complete_task" THEN ERROR_TASK_COMPLETION_FAILED
  ELSE ERROR_TASK_DELETE_FAILED

\* format!("{}: {}", PREFIX, e)
OperationError(kind, e) == ErrorPrefix(kind) \o <<":", Blank>> \o e

\* the operation of the kind fails with the underlying error e
OperationFailed(kind, e) == TaskOperationFailed(OperationError(kind, e))

OperationErrorInit == SyncIdle /\ UiIdle

OperationErrorNext ==
  \E kind \in FailingKinds, e \in RawErrors : OperationFailed(kind, e)

OperationErrorSpec == OperationErrorInit /\ [][OperationErrorNext]_vars

\* ------------------------------------------------------------------------
\* The Today view
\* ------------------------------------------------------------------------
\* the dates of the model in calendar order: dates are "YYYY-MM-DD" texts,
\* which compare as the days they name
Calendar == <<"2026-03-06", "2026-03-07", "2026-03-08", "2026-03-09">>

\* datetime::format_today()
Today == "2026-03-08"

DayOf(date) == CHOOSE i \in 1..Len(Calendar) : Calendar[i] = date

DateBefore(a, b) == a # None /\ b # None /\ DayOf(a) < DayOf(b)

\* the local ids of the rows of the Today view's store
ViewTaskIds == {"t1", "t2", "t3"}

\* the due dates a row may carry
ViewDueDates == { Calendar[i] : i \in 1..Len(Calendar) } \cup {None}

\* the orders in which a query may return the rows of a set
Orders(rows) ==
  { f \in [1..Cardinality(rows) -> rows] :
      \A i, j \in 1..Cardinality(rows) : f[i] = f[j] => i = j }

\* TaskRepository::get_for_today: the overdue rows, then the rows due today
GetForToday(ts, today) ==
  LET overdue == { ts[u] : u \in { x \in DOMAIN ts :
                                     DateBefore(ts[x].due_date, today) } }
      due_today == { ts[u] : u \in { x \in DOMAIN ts :
                                       ts[x].due_date = today } }
  IN { o \o t : o \in Orders(overdue), t \in Orders(due_today) }

\* a query that returns the same rows in any order
GetForToday_Unordered(ts, today) ==
  Orders({ ts[u] : u \in { x \in DOMAIN ts :
                             \/ DateBefore(ts[x].due_date, today)
                             \/ ts[x].due_date = today } })

\* get_tasks_for_today over a query without the order of the segments
GetTasksForToday_Unordered ==
  /\ lock = NoHolder
  /\ view' \in GetForToday_Unordered(tasks, Today)
  /\ UNCHANGED <<syncVars, failure, error_message, dialog, emitted, app, background>>

\* get_tasks_for_today: the query for today's date under the storage mutex
GetTasksForToday ==
  /\ lock = NoHolder
  /\ view' \in GetForToday(tasks, Today)
  /\ UNCHANGED <<syncVars, failure, error_message, dialog, emitted, app, background>>

TodayInit ==
  /\ \E due \in [ViewTaskIds -> ViewDueDates] :
       tasks = [u \in ViewTaskIds |->
                  [SeedTask(FALSE, FALSE) EXCEPT !.uuid = u,
                                                 !.remote_id = "r" \o u,
                                                 !.due_date = due[u]]]
  /\ projects = ProjectTable({"p2", "p3"})
  /\ ProcsIdle
  /\ UiIdle

TodayNext == GetTasksForToday

TodaySpec == TodayInit /\ [][TodayNext]_vars

\* ------------------------------------------------------------------------
\* The task-edit dialog
\* ------------------------------------------------------------------------
\* ActiveTaskField in the order Tab walks through
TaskFields == <<"TaskName", "Description", "DueDate", "Project">>

\* the projects the dialog offers (the inbox project is not among them)
DialogProjectLists == {<<>>, <<"p1">>, <<"p1", "p2">>}

\* the project ids a task row handed to the dialog may carry
DialogProjectUuids == {None, "p1", "p2", UnknownProject}

\* the place of a project in the list: an Option<usize>, the empty or the
\* one-element sequence, places counted from 1
IndexOf(list, uuid) ==
  IF \E i \in 1..Len(list) : list[i] = uuid
  THEN <<CHOOSE i \in 1..Len(list) : list[i] = uuid>>
  ELSE <<>>

\* the project at a place of the list
UuidAt(list, index) == IF index = <<>> THEN None ELSE list[index[1]]

\* Down: the next project, and from the last one the empty slot
CycleDown(list, index) ==
  IF list = <<>> THEN <<>>
  ELSE IF index = <<>> THEN <<1>>
  ELSE IF index[1] < Len(list) THEN <<index[1] + 1>>
  ELSE <<>>

\* Up: the previous project, and from the first one the empty slot
CycleUp(list, index) ==
  IF list = <<>> THEN <<>>
  ELSE IF index = <<>> THEN <<Len(list)>>
  ELSE IF index[1] > 1 THEN <<index[1] - 1>>
  ELSE <<>>

\* a submit that reports whatever the selection shows
EditProjectUpdate_FromSelection(d) ==
  IF d.selected_task_project_uuid # None
  THEN SetProject(d.selected_task_project_uuid)
  ELSE MoveToInbox

\* the project-update intent of Action::EditTask
EditProjectUpdate(d) ==
  IF ~d.task_project_explicitly_selected THEN Unchanged
  ELSE IF d.selected_task_project_uuid # None
  THEN SetProject(d.selected_task_project_uuid)
  ELSE MoveToInbox

\* update(Action::ShowDialog(DialogType::TaskEdit {..})): a project id that
\* is not in the list leaves the selection empty
ShowTaskEdit(list, project_uuid) ==
  /\ dialog = NoDialog
  /\ dialog' = [kind |-> "TaskEdit",
                project_uuid |-> project_uuid,
                selected_task_project_uuid |->
                  UuidAt(list, IndexOf(list, project_uuid)),
                task_project_explicitly_selected |-> FALSE,
                task_projects |-> list,
                selected_task_project_index |-> IndexOf(list, project_uuid),
                active_task_field |-> 1]
  /\ UNCHANGED <<syncVars, failure, error_message, view, emitted, app, background>>

\* Tab and BackTab walk through the fields
KeyTab ==
  /\ dialog # NoDialog
  /\ dialog' = [dialog EXCEPT !.active_task_field =
                  IF @ = Len(TaskFields) THEN 1 ELSE @ + 1]
  /\ UNCHANGED <<syncVars, failure, error_message, view, emitted, app, background>>

KeyBackTab ==
  /\ dialog # NoDialog
  /\ dialog' = [dialog EXCEPT !.active_task_field =
                  IF @ = 1 THEN Len(TaskFields) ELSE @ - 1]
  /\ UNCHANGED <<syncVars, failure, error_message, view, emitted, app, background>>

\* Up and Down on the project field move the selection and mark it as the
\* user's; on any other field, and with no project to offer, they do nothing
Cycle(index) ==
  /\ dialog # NoDialog
  /\ TaskFields[dialog.active_task_field] = "Project"
  /\ dialog.task_projects # <<>>
  /\ dialog' = [dialog EXCEPT
                  !.selected_task_project_index = index,
                  !.selected_task_project_uuid =
                     UuidAt(dialog.task_projects, index),
                  !.task_project_explicitly_selected = TRUE]
  /\ UNCHANGED <<syncVars, failure, error_message, view, emitted, app, background>>

KeyDown ==
  /\ dialog # NoDialog
  /\ Cycle(CycleDown(dialog.task_projects, dialog.selected_task_project_index))

KeyUp ==
  /\ dialog # NoDialog
  /\ Cycle(CycleUp(dialog.task_projects, dialog.selected_task_project_index))

\* Enter: the dialog emits Action::EditTask and is cleared
KeyEnter ==
  /\ dialog # NoDialog
  /\ emitted' = <<[kind |-> "EditTask",
                   project_update |-> EditProjectUpdate(dialog)]>>
  /\ dialog' = NoDialog
  /\ UNCHANGED <<syncVars, failure, error_message, view, app, background>>

DialogInit == SyncIdle /\ UiIdle

DialogNext ==
  \/ \E list \in DialogProjectLists, pu \in DialogProjectUuids :
       ShowTaskEdit(list, pu)
  \/ KeyTab
  \/ KeyBackTab
  \/ KeyDown
  \/ KeyUp
  \/ KeyEnter

DialogSpec == DialogInit /\ [][DialogNext]_vars

\* ------------------------------------------------------------------------
\* The due-date field of the task-edit dialog
\* ------------------------------------------------------------------------
\* longest text of the due-date buffer
MaxDueLen == 3

\* the characters of a due text: a character of a date, an abbreviation in
\* lower and in upper case, and the blank
DueChars == {"d", "t", "T", Blank}

\* the due dates a task handed to the dialog may carry (a date, a date with
\* a blank after it, none)
OriginalDueDates == {<<>>, <<"d">>, <<"d", Blank>>}

\* the text that asks the backend to remove the due date
NO_DATE == <<"no date">>

\* str::split_whitespace
RECURSIVE SplitWhitespace(_)
SplitWhitespace(s) ==
  LET t == TrimStart(s)
      n == IF \E i \in 1..Len(t) : t[i] = Blank
           THEN (CHOOSE i \in 1..Len(t) :
                   t[i] = Blank /\ \A j \in 1..(i - 1) : t[j] # Blank) - 1
           ELSE Len(t)
  IN IF t = <<>> THEN <<>>
     ELSE <<SubSeq(t, 1, n)>> \o SplitWhitespace(SubSeq(t, n + 1, Len(t)))

\* a word of a due text: an abbreviation, in either case, becomes the full
\* word, any other word stays
ExpandWord(w) == IF w \in {<<"t">>, <<"T">>} THEN <<"tomorrow">> ELSE w

\* the words joined by one blank
RECURSIVE JoinWords(_)
JoinWords(ws) ==
  IF ws = <<>> THEN <<>>
  ELSE IF Len(ws) = 1 THEN ws[1]
  ELSE ws[1] \o <<Blank>> \o JoinWords(Tail(ws))

\* normalize_due_string: a text of blanks only is returned as it is
NormalizeDueString(s) ==
  LET ws == SplitWhitespace(s)
  IN IF ws = <<>> THEN s
     ELSE JoinWords([i \in 1..Len(ws) |-> ExpandWord(ws[i])])

\* a submit that compares the buffers as they are
EditDueString_Untrimmed(d) ==
  IF d.due_date_buffer = d.original_due_date_buffer THEN <<>>
  ELSE IF Trim(d.due_date_buffer) = <<>> THEN <<NO_DATE>>
  ELSE <<NormalizeDueString(Trim(d.due_date_buffer))>>

\* the due_string of Action::EditTask, an Option<String>
EditDueString(d) ==
  LET due == Trim(d.due_date_buffer)
      original == Trim(d.original_due_date_buffer)
  IN IF due = original THEN <<>>
     ELSE IF due = <<>> THEN <<NO_DATE>>
     ELSE <<NormalizeDueString(due)>>

\* update(Action::ShowDialog(DialogType::TaskEdit {..})): the due-date
\* buffer starts as the task's due date
ShowTaskEditDue(due_date) ==
  /\ dialog = NoDialog
  /\ dialog' = [kind |-> "TaskEdit",
                due_date_buffer |-> due_date,
                original_due_date_buffer |-> due_date]
  /\ UNCHANGED <<syncVars, failure, error_message, view, emitted, app, background>>

\* a character typed into the due-date field
TypeDueChar(c) ==
  /\ dialog # NoDialog
  /\ Len(dialog.due_date_buffer) < MaxDueLen
  /\ dialog' = [dialog EXCEPT !.due_date_buffer = Append(@, c)]
  /\ UNCHANGED <<syncVars, failure, error_message, view, emitted, app, background>>

\* Backspace in the due-date field
BackspaceDue ==
  /\ dialog # NoDialog
  /\ dialog.due_date_buffer # <<>>
  /\ dialog' = [dialog EXCEPT !.due_date_buffer = SubSeq(@, 1, Len(@) - 1)]
  /\ UNCHANGED <<syncVars, failure, error_message, view, emitted, app, background>>

\* Enter: the dialog emits Action::EditTask and is cleared
SubmitEditDue ==
  /\ dialog # NoDialog
  /\ emitted' = <<[kind |-> "EditTask",
                   due_string |-> EditDueString(dialog),
                   due_date_buffer |-> dialog.due_date_buffer,
                   original_due_date_buffer |->
                     dialog.original_due_date_buffer]>>
  /\ dialog' = NoDialog
  /\ UNCHANGED <<syncVars, failure, error_message, view, app, background>>

DueEditInit == SyncIdle /\ UiIdle

DueEditNext ==
  \/ \E due_date \in OriginalDueDates : ShowTaskEditDue(due_date)
  \/ \E c \in DueChars : TypeDueChar(c)
  \/ BackspaceDue
  \/ SubmitEditDue

DueEditSpec == DueEditInit /\ [][DueEditNext]_vars

\* ------------------------------------------------------------------------
\* Termination: the operations under a fair mutex and an answering gateway
\* ------------------------------------------------------------------------
\* one call of each operation, on the stored task, on a task that is not
\* stored, and with a project that is not stored
Calls ==
  {[kind |-> "create_task", content |-> "User content", description |-> None,
    project_uuid |-> pu, due_string |-> None] : pu \in {None, UnknownProject}}
  \cup
  {[kind |-> "update_task_full", content |-> "User content",
    description |-> "User description", due_string |-> "tomorrow",
    task_uuid |-> "t1", project_update |-> i] :
      i \in {MoveToInbox, SetProject(UnknownProject)}}
  \cup
  {[kind |-> "update_task_due_date", due_date |-> None, task_uuid |-> "t1"],
   [kind |-> "update_task_due_string", due_string |-> "tomorrow",
    task_uuid |-> "t1"],
   [kind |-> "update_task_priority", priority |-> 4, task_uuid |-> "t1"]}
  \cup
  {[kind |-> k, task_uuid |-> t] :
      k \in {"complete_task", "delete_task", "restore_task"},
      t \in {"t1", UnknownTask}}

\* the task runner starts one of the calls
StartCall(p) == \E o \in Calls : Begin(p, o)

\* the steps of a started operation that need nothing but the scheduler
Step(p) ==
  \/ ReadCreate(p)
  \/ ReadRemoteId(p)
  \/ ReadProject(p)
  \/ ReadRestore(p)
  \/ Issue(p)
  \/ WriteCreate(p)
  \/ WriteUpdateFull(p)
  \/ WriteDueDate(p)
  \/ WriteDueString(p)
  \/ WritePriority(p)
  \/ WriteComplete(p)
  \/ WriteDelete(p)
  \/ WriteRestoreRecreate(p)
  \/ WriteRestoreReopen(p)
  \/ Finish(p)

\* the remote call returns, with an answer or with an error
Returns(p) == BackendOk(p) \/ BackendErr(p)

FairInit ==
  /\ \E del \in BOOLEAN : tasks = ("t1" :> SeedTask(del, FALSE))
  /\ projects = ProjectTable({"p3"})
  /\ ProcsIdle
  /\ UiIdle

FairNext ==
  \E p \in Procs :
    \/ StartCall(p)
    \/ Acquire(p)
    \/ Step(p)
    \/ Returns(p)

\* every task the runtime has spawned is polled, every remote call returns,
\* and the mutex (tokio::sync::Mutex, which serves its waiters in order)
\* is granted to each waiter
Fairness ==
  \A p \in Procs :
    /\ WF_vars(Step(p))
    /\ WF_vars(Returns(p))
    /\ SF_vars(Acquire(p))

FairSpec == FairInit /\ [][FairNext]_vars /\ Fairness

\* ------------------------------------------------------------------------
\* Background sync: the initial sync, manual syncs and the data loads
\* ------------------------------------------------------------------------
\* most sync tasks spawned in a run
MaxSyncs == 3

\* most ignored StartSync actions counted
MaxIgnored == 2

SUCCESS_SYNC_COMPLETED == <<"C">>

\* SyncStatus as update_data_from_sync tells it apart: Success, or not
SyncStatuses == {"Success", "NotSuccess"}

\* the internal text of a failed sync
SyncErrorText == <<"x", "y">>

\* what a sync task may send when it ends
SyncOutcomes ==
  {[kind |-> "SyncCompleted", status |-> s] : s \in SyncStatuses}
  \cup {[kind |-> "SyncFailed", error |-> SyncErrorText]}

\* start_background_sync: the task manager spawns a sync task and its id
\* becomes the active-sync marker. origin is not program state: it records
\* who asked for the sync
SpawnSync(b, origin) ==
  [b EXCEPT !.sync_tasks = @ \cup {[task_id |-> b.spawned + 1,
                                    origin |-> origin]},
            !.spawned = @ + 1]

\* spawn_data_load(.., is_initial), with the origin of the sync it follows
SpawnDataLoad(b, is_initial, origin) ==
  [b EXCEPT !.data_loads =
     Append(@, [origin |-> origin, is_initial |-> is_initial])]

\* trigger_initial_sync
TriggerInitialSync ==
  /\ IF background.debug_mode
     THEN /\ Len(background.data_loads) < MaxSyncs
          /\ app' = [app EXCEPT !.is_initial_sync = FALSE]
          /\ background' = SpawnDataLoad(background, TRUE, "startup")
     ELSE IF app.active_sync_task = <<>>
     THEN /\ background.spawned < MaxSyncs
          /\ app' = [app EXCEPT !.is_initial_sync = TRUE,
                                !.active_sync_task = <<background.spawned + 1>>]
          /\ background' = SpawnSync(background, "initial")
     ELSE UNCHANGED <<app, background>>
  /\ UNCHANGED <<syncVars, failure, error_message, view, dialog, emitted>>

\* a StartSync that does not look at the marker
StartSync_Unguarded ==
  /\ background.spawned < MaxSyncs
  /\ app' = [app EXCEPT !.loading = TRUE,
                        !.active_sync_task = <<background.spawned + 1>>]
  /\ background' = SpawnSync(background, "manual")
  /\ UNCHANGED <<syncVars, failure, error_message, view, dialog, emitted>>

\* Action::StartSync. ignored_syncs counts the "Sync already in progress,
\* ignoring" lines of the log, up to MaxIgnored
StartSync ==
  /\ IF app.active_sync_task = <<>>
     THEN /\ background.spawned < MaxSyncs
          /\ app' = [app EXCEPT !.loading = TRUE,
                                !.active_sync_task = <<background.spawned + 1>>]
          /\ background' = SpawnSync(background, "manual")
     ELSE /\ app' = [app EXCEPT !.ignored_syncs =
                                  IF @ < MaxIgnored THEN @ + 1 ELSE @]
          /\ background' = background
  /\ UNCHANGED <<syncVars, failure, error_message, view, dialog, emitted>>

\* a sync task ends and sends its outcome into the background channel
SyncTaskEnds ==
  /\ \E t \in background.sync_tasks, o \in SyncOutcomes :
       background' =
         [background EXCEPT
            !.sync_tasks = @ \ {t},
            !.channel = Append(@, [task_id |-> t.task_id, origin |-> t.origin,
                                   action |-> o])]
  /\ UNCHANGED <<syncVars, failure, error_message, view, dialog, emitted, app>>

\* update_data_from_sync
UpdateDataFromSync(a, b, status, origin) ==
  IF status = "Success"
  THEN [app |-> [a EXCEPT !.is_initial_sync = FALSE],
        background |-> SpawnDataLoad(b, a.is_initial_sync, origin)]
  ELSE [app |-> a, background |-> b]

\* Action::SyncCompleted(status), taken from the channel
HandleSyncCompleted ==
  /\ background.channel # <<>>
  /\ Head(background.channel).action.kind = "SyncCompleted"
  /\ LET m == Head(background.channel)
         out == UpdateDataFromSync(
                  [app EXCEPT !.active_sync_task = <<>>, !.loading = FALSE],
                  [background EXCEPT !.channel = Tail(@)],
                  m.action.status, m.origin)
     IN /\ app' = [out.app EXCEPT !.info_message = <<SUCCESS_SYNC_COMPLETED>>]
        /\ background' = out.background
  /\ UNCHANGED <<syncVars, failure, error_message, view, dialog, emitted>>

\* Action::SyncFailed(error), taken from the channel
HandleSyncFailed ==
  /\ background.channel # <<>>
  /\ Head(background.channel).action.kind = "SyncFailed"
  /\ LET m == Head(background.channel)
     IN /\ app' = [app EXCEPT !.active_sync_task = <<>>, !.loading = FALSE,
                              !.is_initial_sync = FALSE]
        /\ background' = [background EXCEPT !.channel = Tail(@)]
        /\ failure' = <<[error |-> m.action.error,
                         fallback |-> ERROR_SYNC_FAILED]>>
        /\ error_message' =
             <<SanitizeUserError(m.action.error, ERROR_SYNC_FAILED)>>
  /\ UNCHANGED <<syncVars, view, dialog, emitted>>

\* the program is started with the debug mode on or off
BackgroundSyncInit ==
  /\ SyncIdle
  /\ UiQuiet
  /\ app = AppNew
  /\ \E d \in BOOLEAN : background = [BackgroundIdle EXCEPT !.debug_mode = d]

BackgroundSyncNext ==
  \/ TriggerInitialSync
  \/ StartSync
  \/ SyncTaskEnds
  \/ HandleSyncCompleted
  \/ HandleSyncFailed

BackgroundSyncSpec == BackgroundSyncInit /\ [][BackgroundSyncNext]_vars

\* ------------------------------------------------------------------------
\* The help panel and its scroll offset
\* ------------------------------------------------------------------------
\* width of usize in the model
UsizeBits == 7

USIZE_MAX == 2^UsizeBits - 1

\* Action::HelpScrollUp
HelpScrollUp ==
  /\ ~app.panicked
  /\ app' = [app EXCEPT !.help_scroll_offset = IF @ > 0 THEN @ - 1 ELSE @]
  /\ UNCHANGED <<syncVars, failure, error_message, view, dialog, emitted,
                 background>>

\* Action::HelpScrollDown. `+= 1` on usize::MAX aborts the process in a
\* build with overflow checks and wraps to 0 in a build without them
HelpScrollDown ==
  /\ ~app.panicked
  /\ IF app.help_scroll_offset < USIZE_MAX
     THEN app' = [app EXCEPT !.help_scroll_offset = @ + 1]
     ELSE \/ app' = [app EXCEPT !.panicked = TRUE]
          \/ app' = [app EXCEPT !.help_scroll_offset = (@ + 1) % 2^UsizeBits]
  /\ UNCHANGED <<syncVars, failure, error_message, view, dialog, emitted,
                 background>>

\* Action::HelpScrollToTop
HelpScrollToTop ==
  /\ ~app.panicked
  /\ app' = [app EXCEPT !.help_scroll_offset = 0]
  /\ UNCHANGED <<syncVars, failure, error_message, view, dialog, emitted,
                 background>>

\* Action::HelpScrollToBottom
HelpScrollToBottom ==
  /\ ~app.panicked
  /\ app' = [app EXCEPT !.help_scroll_offset = USIZE_MAX]
  /\ UNCHANGED <<syncVars, failure, error_message, view, dialog, emitted,
                 background>>

\* Action::ShowHelp(show)
ShowHelp(show) ==
  /\ ~app.panicked
  /\ app' = [app EXCEPT !.show_help = show,
                        !.help_scroll_offset = IF ~show THEN 0 ELSE @]
  /\ UNCHANGED <<syncVars, failure, error_message, view, dialog, emitted,
                 background>>

HelpInit == SyncIdle /\ UiIdle

HelpNext ==
  \/ HelpScrollUp
  \/ HelpScrollDown
  \/ HelpScrollToTop
  \/ HelpScrollToBottom
  \/ \E show \in BOOLEAN : ShowHelp(show)

HelpSpec == HelpInit /\ [][HelpNext]_vars

\* ------------------------------------------------------------------------
\* Properties
\* ------------------------------------------------------------------------
\* the operation of p has got its answer from the gateway
Answered(p) == Len(resp[p]) = 1

\* the backend's answer names a project that has no local row for b1
MappingMissing(p) ==
  /\ Answered(p)
  /\ ProjectsByRemoteId(projects, SelfBackend,
                        resp[p][1].project_remote_id) = {}

\* p is taking the step that applies its local writes and returns
Writing(p, kind) ==
  pc[p] = "write" /\ op[p].kind = kind /\ pc'[p] = "done"

\* C1 as stated: whenever update_task_full got an answer whose project has
\* no local row, it has returned an error that carries that remote id and
\* has not changed the tasks table.
C1_MappingMissingAlwaysFails ==
  \A p \in Procs :
    (pc[p] = "done" /\ op[p].kind = "update_task_full" /\ MappingMissing(p))
      => /\ ~result[p].ok
         /\ Contains(result[p].msg, resp[p][1].project_remote_id)
         /\ writes[p] = 0

\* C1 amended: when update_task_full finds the task's row at its local write
\* and the answer's project has no local row, the call returns an error that
\* carries the answer's project remote id and the tasks table keeps every
\* row as it was.
C1_MappingMissingFailsAndKeepsRow ==
  [][\A p \in Procs :
       (/\ Writing(p, "update_task_full")
        /\ op[p].task_uuid \in DOMAIN tasks
        /\ MappingMissing(p))
         => /\ ~result'[p].ok
            /\ Contains(result'[p].msg, resp[p][1].project_remote_id)
            /\ tasks' = tasks]_vars

C1_Witness ==
  \E p \in Procs :
    /\ pc[p] = "done" /\ op[p].kind = "update_task_full"
    /\ MappingMissing(p)
    /\ op[p].task_uuid \in DOMAIN tasks
    /\ ~result[p].ok
    /\ Contains(result[p].msg, "rp3")
    /\ writes[p] = 0

\* the local project rows the answer's project remote id maps to
MappedProjects(p) ==
  ProjectsByRemoteId(projects, SelfBackend, resp[p][1].project_remote_id)

\* C2: when update_task_full applies an answer whose project has a local
\* row, the call succeeds and the stored row's content, description,
\* due_date, due_datetime, recurring flag and deadline are the answer's, and
\* its project id is the local id of the project the answer names.
C2_RowTakesBackendResponse ==
  [][\A p \in Procs :
       (/\ Writing(p, "update_task_full")
        /\ op[p].task_uuid \in DOMAIN tasks
        /\ MappedProjects(p) # {})
         => /\ result'[p].ok
            /\ op[p].task_uuid \in DOMAIN tasks'
            /\ LET row == tasks'[op[p].task_uuid]
                   bt == resp[p][1]
               IN /\ row.content = bt.content
                  /\ row.description = bt.description
                  /\ row.due_date = bt.due_date
                  /\ row.due_datetime = bt.due_datetime
                  /\ row.is_recurring = bt.is_recurring
                  /\ row.deadline = bt.deadline
                  /\ \A m \in MappedProjects(p) : row.project_uuid = m.uuid]_vars

C2_Witness ==
  \E p \in Procs :
    /\ pc[p] = "done" /\ op[p].kind = "update_task_full"
    /\ result[p].ok /\ writes[p] = 1
    /\ op[p].task_uuid \in DOMAIN tasks
    /\ LET row == tasks[op[p].task_uuid]
       IN /\ row.content = resp[p][1].content
          /\ row.content # op[p].content
          /\ row.description # op[p].description
          /\ row.deadline = "2026-03-14"
          /\ row.is_recurring
          /\ resp[p][1].project_remote_id = "rp2"
          /\ row.project_uuid = "p2"

\* the requests p has sent or is about to send
Requests(p) ==
  { sent[p][i] : i \in 1..Len(sent[p]) }
    \cup { loc[p].request[i] : i \in 1..Len(loc[p].request) }

\* C3: every remote update that update_task_full sends under the intent
\* Unchanged carries no project argument.
C3_UnchangedSendsNoProject ==
  \A p \in Procs :
    (op[p].kind = "update_task_full" /\ op[p].project_update = Unchanged)
      => \A r \in Requests(p) :
           r.kind = "update_task" /\ r.args.project_remote_id = None

C3_Witness ==
  \E p \in Procs :
    /\ op[p].kind = "update_task_full" /\ op[p].project_update = Unchanged
    /\ pc[p] = "wait" /\ Len(sent[p]) = 1
    /\ sent[p][1].args.project_remote_id = None
    /\ sent[p][1].args.content = op[p].content
    /\ op[p].task_uuid \in DOMAIN tasks
    /\ tasks[op[p].task_uuid].project_uuid = "p2"

\* the remote ids of the projects flagged as inbox for this backend instance
InboxRemoteIds ==
  { q.remote_id : q \in { x \in projects : x.backend_uuid = SelfBackend
                                            /\ x.is_inbox_project } }

\* C4: when a project flagged as inbox exists for the backend instance, every
\* remote update that update_task_full sends under the intent MoveToInbox
\* carries that project's remote id as its project argument.
C4_MoveToInboxSendsInboxRemoteId ==
  \A p \in Procs :
    (/\ op[p].kind = "update_task_full"
     /\ op[p].project_update = MoveToInbox
     /\ InboxRemoteIds # {})
      => \A r \in Requests(p) :
           r.kind = "update_task" /\ r.args.project_remote_id \in InboxRemoteIds

C4_Witness ==
  \E p \in Procs :
    /\ op[p].kind = "update_task_full" /\ op[p].project_update = MoveToInbox
    /\ InboxRemoteIds = {"rp2"}
    /\ pc[p] = "wait" /\ Len(sent[p]) = 1
    /\ sent[p][1].args.project_remote_id = "rp2"

\* the columns that create_task's upsert writes hold the payload bt
ReflectsPayload(row, bt) ==
  /\ row.content = bt.content
  /\ row.description = bt.description
  /\ row.priority = bt.priority
  /\ row.order_index = bt.order_index
  /\ row.due_date = bt.due_date
  /\ row.due_datetime = bt.due_datetime
  /\ row.is_recurring = bt.is_recurring
  /\ row.deadline = bt.deadline
  /\ row.duration = bt.duration
  /\ row.is_completed = bt.is_completed
  /\ ~row.is_deleted

\* C5: each time create_task's local upsert is applied, the tasks table holds
\* exactly one row for the pair (backend instance, remote id) of the payload,
\* a row already stored for the pair keeps its local id, and the row's data
\* columns are those of the payload just applied.
C5_CreateUpsertLeavesOneRow ==
  [][\A p \in Procs :
       (Writing(p, "create_task") /\ result'[p].ok)
         => LET bt == resp[p][1]
                before == TaskRowsByRemoteId(tasks, SelfBackend, bt.remote_id)
                after == TaskRowsByRemoteId(tasks', SelfBackend, bt.remote_id)
            IN /\ Cardinality(after) = 1
               /\ before # {} => after = before
               /\ \A u \in after : ReflectsPayload(tasks'[u], bt)]_vars

C5_Witness ==
  \E p \in Procs, q \in Procs :
    /\ p # q
    /\ pc[p] = "done" /\ op[p].kind = "create_task" /\ result[p].ok
    /\ pc[q] = "done" /\ op[q].kind = "create_task" /\ result[q].ok
    /\ resp[p][1].remote_id = "rt2" /\ resp[q][1].remote_id = "rt2"
    /\ resp[p][1].deadline # resp[q][1].deadline
    /\ writes[p] = 1 /\ writes[q] = 1
    /\ nextUuid = 4
    /\ TaskRowsByRemoteId(tasks, SelfBackend, "rt2") = {"t2"}
    /\ ReflectsPayload(tasks["t2"], resp[q][1])

\* p runs restore_task and has read the row it restores
Restoring(p) == op[p].kind = "restore_task" /\ Len(loc[p].task) = 1

\* C6: restore_task of a row read with deleted=true sends one remote create
\* that carries the row's content, priority, due_date and due_datetime; when
\* it succeeds the old local id is gone, exactly one row holds the created
\* task, not deleted, under a local id other than the old one, generated by
\* this call unless a stored row already held the created remote id, and no
\* other row has appeared.
C6_RestoreDeletedRecreates ==
  [][\A p \in Procs :
       (/\ Writing(p, "restore_task")
        /\ loc[p].task[1].is_deleted
        /\ result'[p].ok)
         => LET old == op[p].task_uuid
                row == loc[p].task[1]
                bt == resp[p][1]
                held == TaskRowsByRemoteId(tasks, SelfBackend, bt.remote_id)
                after == TaskRowsByRemoteId(tasks', SelfBackend, bt.remote_id)
            IN /\ Len(sent[p]) = 1
               /\ sent[p][1].kind = "create_task"
               /\ sent[p][1].args.content = row.content
               /\ sent[p][1].args.priority = <<row.priority>>
               /\ sent[p][1].args.due_date = row.due_date
               /\ sent[p][1].args.due_datetime = row.due_datetime
               /\ old \notin DOMAIN tasks'
               /\ Cardinality(after) = 1
               /\ \A u \in after : u # old /\ ~tasks'[u].is_deleted
               /\ held \ {old} = {} => after = {NewUuid(nextUuid)}
               /\ (DOMAIN tasks' \ DOMAIN tasks) \subseteq after]_vars

C6_Witness ==
  \E p \in Procs :
    /\ pc[p] = "done" /\ Restoring(p) /\ result[p].ok
    /\ loc[p].task[1].is_deleted
    /\ op[p].task_uuid = "t1"
    /\ sent[p][1].kind = "create_task"
    /\ sent[p][1].args.content = "Initial content"
    /\ sent[p][1].args.due_date = "2026-03-08"
    /\ sent[p][1].args.priority = <<1>>
    /\ DOMAIN tasks = {"t2"}
    /\ ~tasks["t2"].is_deleted
    /\ tasks["t2"].remote_id = resp[p][1].remote_id

\* C7: restore_task of a row read with deleted=false and completed=true
\* sends exactly one remote call, a reopen of the row's remote id, and never
\* a create; its local write succeeds, keeps the set of local ids and, on
\* the row still stored under the same local id, changes nothing but the
\* completed flag, which becomes false.
C7_RestoreCompletedReopens ==
  [][\A p \in Procs :
       (/\ Writing(p, "restore_task")
        /\ ~loc[p].task[1].is_deleted
        /\ loc[p].task[1].is_completed)
         => LET old == op[p].task_uuid
            IN /\ sent[p] = <<ReopenRequest(loc[p].task[1].remote_id)>>
               /\ result'[p].ok
               /\ DOMAIN tasks' = DOMAIN tasks
               /\ old \in DOMAIN tasks =>
                    /\ ~tasks'[old].is_completed
                    /\ tasks' = [tasks EXCEPT ![old].is_completed = FALSE]]_vars

C7_Witness ==
  \E p \in Procs :
    /\ pc[p] = "done" /\ Restoring(p) /\ result[p].ok
    /\ ~loc[p].task[1].is_deleted /\ loc[p].task[1].is_completed
    /\ sent[p] = <<ReopenRequest("rt1")>>
    /\ writes[p] = 1
    /\ op[p].task_uuid \in DOMAIN tasks
    /\ ~tasks[op[p].task_uuid].is_completed
    /\ tasks[op[p].task_uuid].uuid = loc[p].task[1].uuid

\* the gateway has answered p's call with an error
GatewayFails(p) == pc[p] = "wait" /\ pc'[p] # "wait" /\ Len(resp'[p]) = 0

\* C8: whichever write operation is waiting for the gateway, an error answer
\* makes it return an error that carries the gateway's message, the step
\* leaves the tasks and the projects tables as they are, and no earlier step
\* of the operation has changed the tasks table.
C8_BackendErrorLeavesStore ==
  [][\A p \in Procs :
       GatewayFails(p)
         => /\ pc'[p] = "done"
            /\ ~result'[p].ok
            /\ \E e \in BackendErrors : result'[p].msg = BackendErrorMsg(e)
            /\ tasks' = tasks
            /\ projects' = projects
            /\ writes'[p] = 0]_vars

C8_Witness ==
  \E p \in Procs :
    /\ pc[p] = "done" /\ Restoring(p)
    /\ loc[p].task[1].is_deleted
    /\ Len(sent[p]) = 1 /\ Len(resp[p]) = 0
    /\ ~result[p].ok
    /\ Contains(result[p].msg, "Backend error: ")
    /\ writes[p] = 0
    /\ op[p].task_uuid \in DOMAIN tasks
    /\ tasks[op[p].task_uuid] = loc[p].task[1]

\* C9 as stated: a write operation whose local step fails leaves the tasks
\* table as it was before the step (no row removed, none half-replaced).
C9_LocalAllOrNothing ==
  [][\A p \in Procs :
       (pc[p] = "write" /\ pc'[p] = "done" /\ ~result'[p].ok)
         => tasks' = tasks]_vars

\* C10: an operation that is about to issue its remote call, or waits for
\* the answer, does not hold the storage mutex.
C10_NoLockAcrossRemoteCall ==
  \A p \in Procs : pc[p] \in {"call", "wait"} => lock # p

C10_Witness ==
  \E p \in Procs, q \in Procs :
    /\ pc[p] = "wait" /\ Len(sent[p]) = 1
    /\ lock = q /\ q # p
    /\ pc[q] = "write"

\* C11: the local read-modify-write of an operation is one uninterrupted
\* hold of the storage mutex: whoever stands in its local step holds the
\* mutex, the tasks table does not change under it until its own write, and
\* every change of the tasks table is the write of the holder, which then
\* lets the mutex go.
C11_LocalStepsNeverInterleave ==
  [][/\ \A p \in Procs : pc[p] = "write" => lock = p
     /\ \A p \in Procs :
          pc[p] = "write" => (tasks' = tasks \/ pc'[p] = "done")
     /\ tasks' # tasks =>
          \E p \in Procs : /\ lock = p /\ pc[p] = "write"
                           /\ pc'[p] = "done" /\ lock' = NoHolder]_vars

C11_Witness ==
  \E p \in Procs, q \in Procs :
    /\ op[p].kind = "update_task_full" /\ op[q].kind = "update_task_priority"
    /\ op[p].task_uuid = op[q].task_uuid
    /\ op[p].task_uuid \in DOMAIN tasks
    /\ Len(sent[p]) = 1 /\ Len(sent[q]) = 1
    /\ pc[q] = "write" /\ lock = q
    /\ pc[p] = "lock3"

\* C12: a row is inserted, updated or deleted only by the local step of an
\* operation that has sent its remote call and holds the gateway's
\* successful answer; an operation that has not got that answer has written
\* nothing.
C12_RemoteCallBeforeLocalWrite ==
  [][/\ tasks' # tasks =>
          \E p \in Procs : /\ pc[p] = "write" /\ pc'[p] = "done"
                           /\ Len(sent[p]) = 1 /\ Answered(p)
     /\ \A p \in Procs : ~Answered(p) => writes[p] = 0]_vars

C12_Witness ==
  \E p \in Procs :
    /\ pc[p] = "done" /\ op[p].kind = "delete_task"
    /\ Len(sent[p]) = 1 /\ sent[p][1].kind = "delete_task"
    /\ Answered(p) /\ result[p].ok
    /\ writes[p] = 1
    /\ op[p].task_uuid \in DOMAIN tasks
    /\ tasks[op[p].task_uuid].is_deleted

\* the operations that edit columns of a task
EditKinds ==
  {"update_task_full", "update_task_due_date", "update_task_due_string",
   "update_task_priority"}

\* C13: the local write of an edit is applied to the row as it is stored at
\* that moment, whatever other operations have written to it since the edit
\* began: the call succeeds and the row holds the edit's values in the
\* columns the edit writes and the stored values in every other column, so
\* that of two racing edits the one that writes last decides its columns.
C13_LastLocalWriteWins ==
  [][\A p \in Procs :
       (/\ pc[p] = "write" /\ pc'[p] = "done"
        /\ op[p].kind \in EditKinds
        /\ op[p].task_uuid \in DOMAIN tasks)
         => LET t == op[p].task_uuid
                bt == resp[p][1]
            IN /\ op[p].kind = "update_task_due_date" =>
                    /\ result'[p].ok
                    /\ tasks' = [tasks EXCEPT ![t].due_date = op[p].due_date]
               /\ op[p].kind = "update_task_priority" =>
                    /\ result'[p].ok
                    /\ tasks' = [tasks EXCEPT ![t].priority = op[p].priority]
               /\ op[p].kind = "update_task_due_string" =>
                    /\ result'[p].ok
                    /\ tasks' = [tasks EXCEPT
                                   ![t].due_date = bt.due_date,
                                   ![t].due_datetime = bt.due_datetime,
                                   ![t].is_recurring = bt.is_recurring,
                                   ![t].deadline = bt.deadline]
               /\ (op[p].kind = "update_task_full" /\ MappedProjects(p) # {}) =>
                    /\ result'[p].ok
                    /\ \E m \in MappedProjects(p) :
                         tasks' = [tasks EXCEPT
                                     ![t].content = bt.content,
                                     ![t].description = bt.description,
                                     ![t].project_uuid = m.uuid,
                                     ![t].due_date = bt.due_date,
                                     ![t].due_datetime = bt.due_datetime,
                                     ![t].is_recurring = bt.is_recurring,
                                     ![t].deadline = bt.deadline]]_vars

\* an edit of the whole task and an edit of its due date have raced and the
\* one that wrote last has decided the due date
C13_Witness ==
  \E p \in Procs, q \in Procs :
    /\ pc[p] = "done" /\ op[p].kind = "update_task_full"
    /\ pc[q] = "done" /\ op[q].kind = "update_task_due_date"
    /\ op[p].task_uuid = op[q].task_uuid
    /\ op[p].task_uuid \in DOMAIN tasks
    /\ result[p].ok /\ result[q].ok
    /\ writes[p] = 1 /\ writes[q] = 1
    /\ resp[p][1].due_date # op[q].due_date
    /\ tasks[op[p].task_uuid].due_date = op[q].due_date
    /\ tasks[op[p].task_uuid].content = resp[p][1].content

C17_ProjectReferenceResolves ==
  \A u \in DOMAIN tasks :
    \E pr \in projects : /\ pr.uuid = tasks[u].project_uuid
                         /\ pr.backend_uuid = tasks[u].backend_uuid

C17_Witness ==
  \E p \in Procs, q \in Procs :
    /\ pc[p] = "done" /\ op[p].kind = "update_task_full"
    /\ result[p].ok /\ writes[p] = 1
    /\ op[p].task_uuid \in DOMAIN tasks
    /\ tasks[op[p].task_uuid].project_uuid = "p2"
    /\ pc[q] = "done" /\ op[q].kind = "create_task"
    /\ Answered(q) /\ resp[q][1].project_remote_id = "rp3"
    /\ ~result[q].ok

\* C18: no two stored task rows carry the same pair of backend instance and
\* remote id, in every state that create, restore and the other write
\* operations reach.
C18_RemoteIdPairUnique ==
  \A u \in DOMAIN tasks, v \in DOMAIN tasks :
    (/\ tasks[u].backend_uuid = tasks[v].backend_uuid
     /\ tasks[u].remote_id = tasks[v].remote_id) => u = v

C18_Witness ==
  \E p \in Procs, q \in Procs :
    /\ pc[p] = "done" /\ op[p].kind = "create_task" /\ result[p].ok
    /\ pc[q] = "done" /\ Restoring(q) /\ result[q].ok
    /\ loc[q].task[1].is_deleted
    /\ resp[p][1].remote_id = "rt2" /\ resp[q][1].remote_id = "rt2"
    /\ writes[p] = 1 /\ writes[q] = 1
    /\ Cardinality(TaskRowsByRemoteId(tasks, SelfBackend, "rt2")) = 1

\* C19: restore_task that finds no row under the local id it is given ends
\* there with an error that names the id, having sent nothing to the
\* gateway, and leaves the tasks table and the mutex as they were.
C19_RestoreOfMissingRowFails ==
  [][\A p \in Procs :
       (/\ pc[p] = "read1" /\ pc'[p] # "read1"
        /\ op[p].kind = "restore_task"
        /\ op[p].task_uuid \notin DOMAIN tasks)
         => /\ pc'[p] = "done"
            /\ ~result'[p].ok
            /\ Contains(result'[p].msg, op[p].task_uuid)
            /\ sent'[p] = <<>>
            /\ Len(loc'[p].request) = 0
            /\ tasks' = tasks
            /\ lock' = NoHolder]_vars

C19_Witness ==
  \E p \in Procs :
    /\ pc[p] = "done" /\ op[p].kind = "restore_task"
    /\ op[p].task_uuid = "t1" /\ "t1" \notin DOMAIN tasks
    /\ ~result[p].ok
    /\ Contains(result[p].msg, "t1")
    /\ sent[p] = <<>> /\ ~Answered(p)
    /\ writes[p] = 0

\* the operations that address a stored task and write it after the call
RowWritingKinds ==
  EditKinds \cup {"complete_task", "delete_task"}

\* C20: when update-full, update due-date, update due-string, update
\* priority, complete or delete finds the task's row gone at its local step
\* after the successful remote call, it returns success and leaves the tasks
\* table as it is.
C20_VanishedRowIsSilentNoOp ==
  [][\A p \in Procs :
       (/\ pc[p] = "write" /\ pc'[p] = "done"
        /\ op[p].kind \in RowWritingKinds
        /\ op[p].task_uuid \notin DOMAIN tasks)
         => /\ result'[p].ok
            /\ tasks' = tasks
            /\ projects' = projects]_vars

C20_Witness ==
  \E p \in Procs :
    /\ pc[p] = "done" /\ op[p].kind \in RowWritingKinds
    /\ op[p].task_uuid = "t1" /\ "t1" \notin DOMAIN tasks
    /\ loc[p].remote_id = "rt1"
    /\ Len(sent[p]) = 1 /\ Answered(p)
    /\ result[p].ok
    /\ writes[p] = 0

\* the operations that have been started and whose outcome is still to come
InFlight == {p \in Procs : pc[p] # "idle"}

\* C14: every write intent the user has issued either still has its
\* operation running or has surfaced exactly one terminal outcome (a success
\* or an error message): no handled intent is left with zero outcomes and
\* none has more than one
C14_OneOutcomePerIntent ==
  surfaced + Cardinality(InFlight) = started + ignored

\* p resolves the project argument of its update_task_full
ResolvingProject(p) ==
  /\ pc[p] = "read2" /\ pc'[p] # "read2"
  /\ op[p].kind = "update_task_full"

\* C21: when no project is flagged as inbox for the backend instance,
\* update_task_full under the intent MoveToInbox does not fail at the
\* resolution of the project; the remote update it prepares and sends has no
\* project argument and is the very request the intent Unchanged produces.
C21_MoveToInboxWithoutInboxSendsNone ==
  [][\A p \in Procs :
       (/\ op[p].kind = "update_task_full"
        /\ op[p].project_update = MoveToInbox
        /\ InboxRemoteIds = {})
         => /\ ResolvingProject(p)
                 => /\ pc'[p] = "call"
                    /\ ~result'[p].set
                    /\ loc'[p].request =
                         <<UpdateRequest(loc[p].remote_id,
                             UpdateFullArgs(op[p].content, op[p].description,
                                            op[p].due_string, None))>>
                    /\ \A r \in UpdateFullResolveProject(projects, Unchanged) :
                         r.ok /\ loc'[p].request[1].args.project_remote_id = r.val
            /\ \A i \in 1..Len(sent'[p]) :
                 /\ sent'[p][i].kind = "update_task"
                 /\ sent'[p][i].args.project_remote_id = None]_vars

C21_Witness ==
  \E p \in Procs :
    /\ op[p].kind = "update_task_full" /\ op[p].project_update = MoveToInbox
    /\ InboxRemoteIds = {}
    /\ pc[p] = "done" /\ Len(sent[p]) = 1
    /\ sent[p][1].args.project_remote_id = None
    /\ sent[p][1].args.content = op[p].content
    /\ result[p].ok /\ result[p].set

\* C22: the request create_task sends carries the caller's content,
\* description and due string as they were given, no section, parent,
\* priority or duration, no labels, and as project argument the remote id of
\* the target project, or the empty string when no target project is given.
C22_CreateRequestCarriesCallerArgs ==
  \A p \in Procs :
    op[p].kind = "create_task"
      => \A r \in Requests(p) :
           /\ r.kind = "create_task"
           /\ r.args.content = op[p].content
           /\ r.args.description = op[p].description
           /\ r.args.due_string = op[p].due_string
           /\ r.args.section_remote_id = None
           /\ r.args.parent_remote_id = None
           /\ r.args.priority = <<>>
           /\ r.args.duration = None
           /\ r.args.labels = <<>>
           /\ IF op[p].project_uuid = None
              THEN r.args.project_remote_id = ""
              ELSE \E q \in projects :
                     /\ q.uuid = op[p].project_uuid
                     /\ r.args.project_remote_id = q.remote_id

C22_Witness ==
  \E p \in Procs, q \in Procs :
    /\ op[p].kind = "create_task" /\ op[q].kind = "create_task"
    /\ Len(sent[p]) = 1 /\ Len(sent[q]) = 1
    /\ op[p].project_uuid = "p2" /\ sent[p][1].args.project_remote_id = "rp2"
    /\ op[p].description = "User description"
    /\ sent[p][1].args.due_string = "tomorrow"
    /\ op[q].project_uuid = None /\ sent[q][1].args.project_remote_id = ""
    /\ sent[q][1].args.description = None /\ op[q].due_string = None

\* no row of the projects table carries the local id uuid
NoProjectRow(uuid) == \A q \in projects : q.uuid # uuid

\* p holds the lock for its lookups and one of them cannot be resolved: the
\* target project of create_task, the project of Set(..) of
\* update_task_full, the stored project or parent of the soft-deleted row of
\* restore_task
ResolutionFails(p) ==
  \/ /\ pc[p] = "read1" /\ op[p].kind = "create_task"
     /\ op[p].project_uuid # None /\ NoProjectRow(op[p].project_uuid)
  \/ /\ pc[p] = "read2" /\ op[p].kind = "update_task_full"
     /\ op[p].project_update.kind = "Set"
     /\ NoProjectRow(op[p].project_update.uuid)
  \/ /\ pc[p] = "read1" /\ op[p].kind = "restore_task"
     /\ op[p].task_uuid \in DOMAIN tasks
     /\ tasks[op[p].task_uuid].is_deleted
     /\ \/ NoProjectRow(tasks[op[p].task_uuid].project_uuid)
        \/ /\ tasks[op[p].task_uuid].parent_uuid # None
           /\ tasks[op[p].task_uuid].parent_uuid \notin DOMAIN tasks

C24_CreateMappingMissingLeavesNoRow ==
  [][\A p \in Procs :
       (Writing(p, "create_task") /\ MappingMissing(p))
         => /\ result'[p].set /\ ~result'[p].ok
            /\ Contains(result'[p].msg, resp[p][1].project_remote_id)
            /\ tasks' = tasks
            /\ writes'[p] = 0
            /\ TaskRowsByRemoteId(tasks', SelfBackend, resp[p][1].remote_id)
                 = TaskRowsByRemoteId(tasks, SelfBackend, resp[p][1].remote_id)]_vars

C24_Witness ==
  \E p \in Procs :
    /\ op[p].kind = "create_task" /\ pc[p] = "done"
    /\ Len(sent[p]) = 1 /\ MappingMissing(p)
    /\ resp[p][1].project_remote_id = "rp3"
    /\ resp[p][1].remote_id = "rt2"
    /\ ~result[p].ok
    /\ TaskRowsByRemoteId(tasks, SelfBackend, "rt2") = {}
    /\ DOMAIN tasks = {"t1"}

\* the operations that write one column with the caller's value
OneFieldKinds == {"update_task_due_date", "update_task_priority"}

\* the row r1 is the row r0 but for the column the operation o writes, which
\* holds the caller's value
OnlyOwnColumn(o, r0, r1) ==
  IF o.kind = "update_task_priority"
  THEN r1 = [r0 EXCEPT !.priority = o.priority]
  ELSE r1 = [r0 EXCEPT !.due_date = o.due_date]

\* the request r has the field of the operation o and no other
OnlyOwnField(o, r) ==
  /\ r.kind = "update_task"
  /\ IF o.kind = "update_task_priority"
     THEN /\ r.args.priority = <<o.priority>>
          /\ [r.args EXCEPT !.priority = <<>>] = NoUpdateArgs
     ELSE /\ r.args.due_date = o.due_date
          /\ [r.args EXCEPT !.due_date = None] = NoUpdateArgs

\* C25: update_task_priority and update_task_due_date send a remote update
\* in which only their own field is present, and their local step changes
\* only that column of the addressed row, to the caller's value: every other
\* column of the row and every other row stay as they were.
C25_OneFieldOnly ==
  [][\A p \in Procs :
       op[p].kind \in OneFieldKinds
         => /\ \A r \in Requests(p) : OnlyOwnField(op[p], r)
            /\ (pc[p] = "write" /\ pc'[p] = "done")
                 => /\ result'[p].ok
                    /\ DOMAIN tasks' = DOMAIN tasks
                    /\ \A u \in DOMAIN tasks :
                         IF u = op[p].task_uuid
                         THEN OnlyOwnColumn(op[p], tasks[u], tasks'[u])
                         ELSE tasks'[u] = tasks[u]]_vars

C25_Witness ==
  \E p \in Procs, q \in Procs :
    /\ op[p].kind = "update_task_due_date" /\ op[p].task_uuid = "t1"
    /\ op[p].due_date = "2026-04-01"
    /\ pc[p] = "done" /\ result[p].ok /\ writes[p] = 1
    /\ op[q].kind = "update_task_priority" /\ op[q].task_uuid = "t1"
    /\ pc[q] = "done" /\ result[q].ok /\ writes[q] = 1
    /\ "t1" \in DOMAIN tasks
    /\ tasks["t1"].due_date = "2026-04-01" /\ tasks["t1"].priority = 4
    /\ tasks["t1"].deadline = "2026-03-05"
    /\ sent[q][1].args.priority = <<4>> /\ sent[q][1].args.due_date = None
    /\ sent[p][1].args.priority = <<>>

\* C26: the local step of update_task_due_string gives the addressed row the
\* due date, due datetime, recurring flag and deadline of the backend's
\* answer, an absent value of the answer replacing a stored one, and changes
\* no other column and no other row.
C26_DueStringCopiesDueFields ==
  [][\A p \in Procs :
       Writing(p, "update_task_due_string")
         => LET bt == resp[p][1]
                t == op[p].task_uuid
            IN /\ result'[p].ok
               /\ DOMAIN tasks' = DOMAIN tasks
               /\ \A u \in DOMAIN tasks \ {t} : tasks'[u] = tasks[u]
               /\ t \in DOMAIN tasks
                    => /\ tasks'[t].due_date = bt.due_date
                       /\ tasks'[t].due_datetime = bt.due_datetime
                       /\ tasks'[t].is_recurring = bt.is_recurring
                       /\ tasks'[t].deadline = bt.deadline
                       /\ [tasks'[t] EXCEPT
                             !.due_date = tasks[t].due_date,
                             !.due_datetime = tasks[t].due_datetime,
                             !.is_recurring = tasks[t].is_recurring,
                             !.deadline = tasks[t].deadline] = tasks[t]]_vars

C26_Witness ==
  \E p \in Procs :
    /\ op[p].kind = "update_task_due_string" /\ op[p].task_uuid = "t1"
    /\ pc[p] = "done" /\ result[p].ok /\ writes[p] = 1
    /\ resp[p][1].due_date = None /\ resp[p][1].deadline = None
    /\ "t1" \in DOMAIN tasks
    /\ tasks["t1"].due_date = None /\ tasks["t1"].deadline = None
    /\ tasks["t1"].content = "Initial content"
    /\ \A q \in Procs \ {p} : pc[q] = "idle"

\* the priority that follows each of 1, 2, 3, 4 in the cycle
NextInCycle == <<2, 3, 4, 1>>

\* C29: a CyclePriority intent on a row with stored priority 1, 2 or 3
\* requests the priority one higher and on a row with stored priority 4
\* requests 1; the stored priorities, which start in 1..4, stay in 1..4
\* through every sequence of cycle operations.
C29_CycleStaysInRange ==
  [][/\ \A p \in Procs :
          (pc[p] = "idle" /\ pc'[p] = "lock1")
            => /\ op'[p].kind = "update_task_priority"
               /\ op'[p].task_uuid \in DOMAIN tasks
               /\ op'[p].priority =
                    NextInCycle[tasks[op'[p].task_uuid].priority]
     /\ \A u \in DOMAIN tasks : tasks[u].priority \in 1..4
     /\ \A u \in DOMAIN tasks' : tasks'[u].priority \in 1..4
     /\ \A p \in Procs :
          (pc[p] = "write" /\ pc'[p] = "done" /\ op[p].task_uuid \in DOMAIN tasks)
            => tasks'[op[p].task_uuid].priority = op[p].priority]_vars

C29_Witness ==
  \E p \in Procs, q \in Procs :
    /\ op[p].kind = "update_task_priority" /\ op[p].priority = 1
    /\ pc[p] = "done" /\ result[p].ok /\ writes[p] = 1
    /\ op[q].kind = "update_task_priority" /\ op[q].priority = 2
    /\ pc[q] = "done" /\ result[q].ok /\ writes[q] = 1
    /\ tasks["t1"].priority = 2

\* the text with every run of detail characters replaced by one mark: two
\* texts with the same skeleton differ only in their detail
RECURSIVE Skeleton(_)
Skeleton(s) ==
  IF s = <<>> THEN <<>>
  ELSE LET rest == Skeleton(Tail(s))
       IN IF Head(s) \notin DetailChars THEN <<Head(s)>> \o rest
          ELSE IF rest # <<>> /\ Head(rest) = "#" THEN rest
          ELSE <<"#">> \o rest

\* the texts an error dialog may show for a failure with this fallback
SafeTexts(fallback) ==
  { SAFE_ERROR_PREFIXES[i] : i \in 1..Len(SAFE_ERROR_PREFIXES) } \cup {fallback}

\* C27: the text of the error dialog of a failed operation or a failed sync
\* is one of the safe prefix constants or the fallback the caller supplied;
\* it holds no character of the error's detail, and every failure whose
\* internal text differs from this one's only in detail is shown with the
\* same text.
C27_ErrorDialogShowsNoDetail ==
  failure # <<>>
    => /\ Len(error_message) = 1
       /\ error_message[1] \in SafeTexts(failure[1].fallback)
       /\ \A i \in 1..Len(error_message[1]) :
            error_message[1][i] \notin DetailChars
       /\ \A other \in RawErrors :
            Skeleton(other) = Skeleton(failure[1].error)
              => SanitizeUserError(other, failure[1].fallback)
                   = error_message[1]

C27_Witness ==
  /\ failure # <<>>
  /\ failure[1].error = <<"x", "a", "b", "y">>
  /\ failure[1].fallback = ERROR_OPERATION_FAILED
  /\ error_message = <<ERROR_TASK_COMPLETION_FAILED>>
  /\ SanitizeUserError(<<"y", "a", "b", "x">>, ERROR_OPERATION_FAILED)
       = ERROR_TASK_COMPLETION_FAILED
  /\ SanitizeUserError(<<"x", " ", "y">>, ERROR_SYNC_FAILED) = ERROR_SYNC_FAILED

Submitting == dialog # NoDialog /\ dialog' = NoDialog

\* C30: the task-edit dialog emits, on submit, Unchanged when the user has
\* not moved the project selection (also when the task's project id is not
\* in the dialog's list), Set(p) when the user's selection stands on the
\* project p, and MoveToInbox when the user has moved the selection to the
\* empty slot, which takes a list with a project to move from.
C30_EditDialogIntent ==
  [][Submitting
       => LET intent == emitted'[1].project_update
              list == dialog.task_projects
              index == dialog.selected_task_project_index
          IN /\ emitted'[1].kind = "EditTask"
             /\ ~dialog.task_project_explicitly_selected
                  => intent = Unchanged
             /\ (/\ dialog.project_uuid # None
                 /\ \A i \in 1..Len(list) : list[i] # dialog.project_uuid
                 /\ ~dialog.task_project_explicitly_selected)
                  => intent = Unchanged /\ index = <<>>
             /\ (dialog.task_project_explicitly_selected /\ index # <<>>)
                  => /\ intent = SetProject(list[index[1]])
                     /\ dialog.selected_task_project_uuid = list[index[1]]
             /\ (dialog.task_project_explicitly_selected /\ index = <<>>)
                  => /\ intent = MoveToInbox
                     /\ list # <<>>]_vars

C30_Witness ==
  /\ dialog = NoDialog
  /\ emitted # <<>>
  /\ emitted[1].kind = "EditTask"
  /\ emitted[1].project_update = MoveToInbox

\* C31: a submit of the task-edit dialog emits no due string when the
\* trimmed due-date buffer equals the trimmed original due date, the text
\* "no date" when a due date that was there has been emptied, and the
\* normalized text of the buffer otherwise: no blank at either end, one
\* blank between words, every abbreviation written out.
C31_EditDueString ==
  [][ (dialog # NoDialog /\ dialog' = NoDialog) =>
        LET due == Trim(dialog.due_date_buffer)
            original == Trim(dialog.original_due_date_buffer)
            out == emitted'[1].due_string
        IN /\ emitted' # <<>>
           /\ emitted'[1].kind = "EditTask"
           /\ (due = original) <=> (out = <<>>)
           /\ (due # original /\ due = <<>>) <=> (out = <<NO_DATE>>)
           /\ (due # original /\ due # <<>>) =>
                /\ out = <<NormalizeDueString(dialog.due_date_buffer)>>
                /\ out[1] # <<>>
                /\ Head(out[1]) # Blank /\ out[1][Len(out[1])] # Blank
                /\ \A i \in 1..(Len(out[1]) - 1) :
                     ~(out[1][i] = Blank /\ out[1][i + 1] = Blank)
                /\ \A i \in 1..Len(out[1]) : out[1][i] \notin {"t", "T"}
                     \/ (i > 1 /\ out[1][i - 1] # Blank)
                     \/ (i < Len(out[1]) /\ out[1][i + 1] # Blank)
                /\ Len(SplitWhitespace(out[1])) = Len(SplitWhitespace(due))
  ]_vars

\* a padded but otherwise untouched due date was submitted, a due date was
\* emptied, and an abbreviation was typed and submitted written out
C31_Witness ==
  /\ dialog = NoDialog
  /\ emitted # <<>>
  /\ emitted[1].kind = "EditTask"
  /\ "due_string" \in DOMAIN emitted[1]
  /\ emitted[1].original_due_date_buffer = <<"d">>
  /\ emitted[1].due_date_buffer = <<"d", Blank, "T">>
  /\ emitted[1].due_string = <<(<<"d", Blank, "tomorrow">>)>>

\* C32: an operation holds the store lock only while it reads or writes the
\* store: it holds no lock when it has returned (with success or with an
\* error), while its remote call is prepared or under way, and while it
\* waits for the lock; and with a fair lock and a gateway that answers,
\* every started operation terminates.
C32_LockReleasedAndAllTerminate ==
  /\ [](\A p \in Procs :
          /\ pc[p] \notin {"read1", "read2", "write"} => lock # p
          /\ lock = p => pc[p] \in {"read1", "read2", "write"})
  /\ \A p \in Procs : (pc[p] # "idle") ~> (pc[p] = "done" /\ lock # p)
  /\ \A p \in Procs : (pc[p] = "done") ~> (pc[p] = "idle")

\* an operation has returned an error before its remote call and the lock
\* is free, while the other operation waits for the lock
C32_Witness ==
  \E p \in Procs, q \in Procs :
    /\ p # q
    /\ pc[p] = "done"
    /\ ~result[p].ok
    /\ sent[p] = <<>>
    /\ pc[q] \in {"lock1", "lock2", "lock3"}
    /\ lock = NoHolder

\* C36: restore_task chooses its branch from the deleted flag alone. The step
\* that reads an existing row prepares a remote create when the row is
\* deleted and a reopen of the row's remote id when it is not, whatever the
\* completed flag says; a restore of a row read with deleted=false sends
\* nothing but that one reopen, and has sent it once its call is under way;
\* a restore of a row read with deleted=true sends nothing but one create.
C36_RestoreBranchFromDeletedFlag ==
  [][\A p \in Procs :
       /\ (/\ pc[p] = "read1"
           /\ op[p].kind = "restore_task"
           /\ pc'[p] # "read1"
           /\ op[p].task_uuid \in DOMAIN tasks)
            => LET task == tasks[op[p].task_uuid]
               IN /\ task.is_deleted =>
                       \/ pc'[p] = "done" /\ ~result'[p].ok /\ sent'[p] = <<>>
                       \/ /\ pc'[p] = "call"
                          /\ loc'[p].request[1].kind = "create_task"
                  /\ ~task.is_deleted =>
                       /\ pc'[p] = "call"
                       /\ loc'[p].request = <<ReopenRequest(task.remote_id)>>
       /\ (Restoring(p) /\ ~loc[p].task[1].is_deleted)
            => /\ sent[p] \in {<<>>, <<ReopenRequest(loc[p].task[1].remote_id)>>}
               /\ pc[p] \in {"wait", "lock3", "write"} => sent[p] # <<>>
               /\ sent'[p] \in
                    {<<>>, <<ReopenRequest(loc[p].task[1].remote_id)>>}
       /\ (Restoring(p) /\ loc[p].task[1].is_deleted)
            => /\ Len(sent[p]) <= 1 /\ Len(sent'[p]) <= 1
               /\ \A i \in 1..Len(sent'[p]) : sent'[p][i].kind = "create_task"
               /\ pc[p] \in {"wait", "lock3", "write"} => sent[p] # <<>>]_vars

\* a row that was deleted and completed has been recreated, and the row
\* that stands in for it, neither deleted nor completed, is being reopened
C36_Witness ==
  \E p \in Procs, q \in Procs :
    /\ Restoring(p)
    /\ loc[p].task[1].is_deleted /\ loc[p].task[1].is_completed
    /\ Len(sent[p]) = 1 /\ sent[p][1].kind = "create_task"
    /\ Restoring(q)
    /\ ~loc[q].task[1].is_deleted /\ ~loc[q].task[1].is_completed
    /\ sent[q] = <<ReopenRequest(loc[q].task[1].remote_id)>>

\* p and q, two operations, restore the same task, and each has read its
\* row with deleted=true
RestoringSame(p, q) ==
  /\ p # q
  /\ Restoring(p) /\ Restoring(q)
  /\ op[p].task_uuid = op[q].task_uuid
  /\ loc[p].task[1].is_deleted /\ loc[q].task[1].is_deleted

\* C34: of two restore operations on the same soft-deleted task at most one
\* sends a remote create, and when both have returned at most one local
\* row other than the old one is stored.
C34_TwoRestoresOneCreate ==
  \A p \in Procs, q \in Procs :
    RestoringSame(p, q) =>
      /\ Len(sent[p]) + Len(sent[q]) <= 1
      /\ (pc[p] = "done" /\ pc[q] = "done") =>
           Cardinality(DOMAIN tasks \ {op[p].task_uuid}) <= 1

\* the columns of the addressed row that the local step of an operation
\* writes
WrittenColumns(o) ==
  CASE o.kind = "update_task_priority" -> {"priority"}
    [] o.kind = "update_task_due_date" -> {"due_date"}
    [] o.kind = "update_task_due_string" ->
         {"due_date", "due_datetime", "is_recurring", "deadline"}
    [] o.kind = "update_task_full" ->
         {"content", "description", "due_date", "due_datetime",
          "is_recurring", "deadline", "project_uuid"}
    [] o.kind = "complete_task" -> {"is_completed"}
    [] o.kind = "delete_task" -> {"is_deleted"}

\* the row holds what the operation of p has written
CarriesWrite(p, row) ==
  CASE op[p].kind = "update_task_priority" -> row.priority = op[p].priority
    [] op[p].kind = "update_task_due_date" -> row.due_date = op[p].due_date
    [] op[p].kind = "update_task_due_string" ->
         /\ row.due_date = resp[p][1].due_date
         /\ row.due_datetime = resp[p][1].due_datetime
         /\ row.is_recurring = resp[p][1].is_recurring
         /\ row.deadline = resp[p][1].deadline
    [] op[p].kind = "update_task_full" ->
         /\ row.content = resp[p][1].content
         /\ row.description = resp[p][1].description
         /\ row.due_date = resp[p][1].due_date
         /\ row.due_datetime = resp[p][1].due_datetime
         /\ row.is_recurring = resp[p][1].is_recurring
         /\ row.deadline = resp[p][1].deadline
         /\ \E r \in MappedProjects(p) : row.project_uuid = r.uuid
    [] op[p].kind = "complete_task" -> row.is_completed
    [] op[p].kind = "delete_task" -> row.is_deleted

\* p and q have both returned success from operations on the same stored
\* task that write disjoint sets of columns
DisjointWriters(p, q) ==
  /\ p # q
  /\ pc[p] = "done" /\ pc[q] = "done"
  /\ result[p].ok /\ result[q].ok
  /\ op[p].kind \in RowWritingKinds /\ op[q].kind \in RowWritingKinds
  /\ op[p].task_uuid = op[q].task_uuid
  /\ op[p].task_uuid \in DOMAIN tasks
  /\ WrittenColumns(op[p]) \cap WrittenColumns(op[q]) = {}

\* C35: when two operations that write disjoint columns of the same task
\* have both succeeded, in whatever order their steps were taken, the row
\* holds the writes of both.
C35_NoLostUpdateAcrossFields ==
  \A p \in Procs, q \in Procs :
    DisjointWriters(p, q) =>
      /\ CarriesWrite(p, tasks[op[p].task_uuid])
      /\ CarriesWrite(q, tasks[op[q].task_uuid])

\* complete_task and update_task_full have both written the same row and
\* succeeded: the row is completed and holds the answer's content
C35_Witness ==
  \E p \in Procs, q \in Procs :
    /\ DisjointWriters(p, q)
    /\ op[p].kind = "complete_task"
    /\ op[q].kind = "update_task_full"
    /\ writes[p] = 1 /\ writes[q] = 1
    /\ tasks[op[p].task_uuid].is_completed
    /\ tasks[op[p].task_uuid].content = "Remote content"

\* p and q have both returned success from a priority update of the same
\* stored task
BothCycled(p, q) ==
  /\ p # q
  /\ pc[p] = "done" /\ pc[q] = "done"
  /\ result[p].ok /\ result[q].ok
  /\ op[p].kind = "update_task_priority" /\ op[q].kind = "update_task_priority"
  /\ op[p].task_uuid = op[q].task_uuid
  /\ op[p].task_uuid \in DOMAIN tasks

\* C37 as stated: when two CyclePriority intents for the same task have both
\* completed successfully the stored priority is two steps of the cycle
\* past the initial one: one operation asked for the step after the initial
\* priority, the other for the step after that, and the row holds the
\* latter.
C37_EveryIntentAdvances ==
  \A p \in Procs, q \in Procs :
    BothCycled(p, q) =>
      \E x \in StoredPriorities :
        /\ NextInCycle[x] \in {op[p].priority, op[q].priority}
        /\ tasks[op[p].task_uuid].priority = NextInCycle[NextInCycle[x]]

\* C37, amended: a CyclePriority intent asks for the step after the priority
\* stored when it is dispatched; a successful operation stores the priority
\* it asked for, which is one step past the stored one exactly when the row
\* still holds the priority the intent was dispatched on; and the stored
\* priority changes in no other way. So intents dispatched each after the
\* previous operation's write advance the row one step each, and an intent
\* dispatched before an earlier operation has written asks for the same
\* priority as that operation.
C37_AdvancesPerWrittenIntent ==
  [][/\ \A q \in Procs :
          (pc[q] = "idle" /\ pc'[q] = "lock1")
            => /\ op'[q].priority =
                    NextInCycle[tasks[op'[q].task_uuid].priority]
               /\ \A p \in Procs \ {q} :
                    (/\ op[p].kind = "update_task_priority"
                     /\ op[p].task_uuid = op'[q].task_uuid)
                      => IF tasks[op[p].task_uuid].priority = op[p].priority
                         THEN op'[q].priority = NextInCycle[op[p].priority]
                         ELSE (op[p].priority =
                                 NextInCycle[tasks[op[p].task_uuid].priority])
                                => op'[q].priority = op[p].priority
     /\ \A p \in Procs :
          (pc[p] = "write" /\ pc'[p] = "done")
            => /\ result'[p].ok
               /\ tasks'[op[p].task_uuid].priority = op[p].priority
               /\ (tasks'[op[p].task_uuid].priority =
                     NextInCycle[tasks[op[p].task_uuid].priority])
                    <=> (op[p].priority =
                           NextInCycle[tasks[op[p].task_uuid].priority])
     /\ \A u \in DOMAIN tasks :
          tasks'[u].priority # tasks[u].priority
            => \E p \in Procs :
                 /\ pc[p] = "write" /\ pc'[p] = "done"
                 /\ op[p].task_uuid = u]_vars

\* two intents were dispatched on priority 1 before either operation wrote:
\* both asked for 2, both succeeded, and the row holds 2
C37_Witness ==
  \E p \in Procs, q \in Procs :
    /\ BothCycled(p, q)
    /\ op[p].priority = 2 /\ op[q].priority = 2
    /\ writes[p] = 1 /\ writes[q] = 0
    /\ tasks[op[p].task_uuid].priority = 2

\* the place in SAFE_ERROR_PREFIXES of the prefix the failed operation's
\* error text begins with
OwnPrefix(raw) ==
  CHOOSE i \in 1..Len(SAFE_ERROR_PREFIXES) :
    StartsWith(raw, SAFE_ERROR_PREFIXES[i] \o <<":">>)

\* C39 as stated: the dialog of a failed operation shows that operation's
\* own error prefix, whatever the underlying error contains.
C39_OwnPrefixAlways ==
  failure # <<>> =>
    error_message = <<SAFE_ERROR_PREFIXES[OwnPrefix(failure[1].error)]>>

\* C39, amended: the dialog of a failed operation shows the first entry of
\* the safe-prefix list that occurs anywhere in the error text. That is the
\* operation's own prefix exactly when no entry listed before it occurs in
\* the text; the underlying error never shows.
C39_FirstListedPrefixWins ==
  failure # <<>> =>
    LET raw == failure[1].error
        own == OwnPrefix(raw)
        listed == { i \in 1..Len(SAFE_ERROR_PREFIXES) :
                      StrContains(raw, SAFE_ERROR_PREFIXES[i]) }
    IN /\ own \in listed
       /\ \E i \in listed :
            /\ \A j \in listed : i <= j
            /\ error_message = <<SAFE_ERROR_PREFIXES[i]>>
       /\ (error_message = <<SAFE_ERROR_PREFIXES[own]>>)
            <=> (\A j \in listed : own <= j)
       /\ failure[1].fallback = ERROR_OPERATION_FAILED
       /\ error_message # <<failure[1].fallback>>

\* a delete has failed with an underlying error that holds the text of the
\* completion prefix, and the dialog shows the completion prefix
C39_Witness ==
  /\ failure # <<>>
  /\ failure[1].error = ERROR_TASK_DELETE_FAILED \o <<":", Blank>>
                          \o <<"x">> \o ERROR_TASK_COMPLETION_FAILED
  /\ error_message = <<ERROR_TASK_COMPLETION_FAILED>>

\* the sync tasks that are running or whose outcome waits in the channel
SyncsInFlight ==
  {t.task_id : t \in background.sync_tasks}
  \cup {background.channel[i].task_id : i \in DOMAIN background.channel}

\* C38: at most one background sync is in flight at any time, and it is the
\* one the active-sync marker names; while the marker is set no step starts
\* a sync task (a StartSync or an initial-sync trigger received then starts
\* nothing); and the marker goes from set to empty only in the step that
\* handles the SyncCompleted or SyncFailed at the head of the channel.
C38_OneSyncInFlight ==
  /\ [](/\ Cardinality(background.sync_tasks) <= 1
        /\ Cardinality(SyncsInFlight) <= 1
        /\ \A id \in SyncsInFlight : app.active_sync_task = <<id>>)
  /\ [][app.active_sync_task # <<>>
          => /\ background'.spawned = background.spawned
             /\ background'.sync_tasks \subseteq background.sync_tasks]_vars
  /\ [][(app.active_sync_task # <<>> /\ app'.active_sync_task = <<>>)
          => /\ background.channel # <<>>
             /\ Head(background.channel).action.kind
                  \in {"SyncCompleted", "SyncFailed"}
             /\ background'.channel = Tail(background.channel)]_vars

\* C38 witness: a second sync is running after the first one was completed
\* and handled, and a StartSync received while a sync was active has been
\* ignored.
C38_Witness ==
  /\ app.ignored_syncs > 0
  /\ background.spawned = 2
  /\ app.active_sync_task = <<2>>
  /\ Cardinality(background.sync_tasks) = 1

\* C33: every data load that follows a manually started sync is the regular
\* data fetch, not the initial one.
C33_ManualSyncRegularFetch ==
  \A i \in DOMAIN background.data_loads :
    background.data_loads[i].origin = "manual"
      => ~background.data_loads[i].is_initial

\* C40: whatever help actions are taken, no step aborts the process, a
\* HelpScrollUp at 0 leaves the offset 0, a HelpScrollDown adds exactly one
\* to it, and a ShowHelp(false) resets it to 0.
C40_HelpScrollStaysInRange ==
  [][/\ ~app'.panicked
     /\ (HelpScrollUp /\ app.help_scroll_offset = 0)
          => app'.help_scroll_offset = 0
     /\ HelpScrollDown
          => app'.help_scroll_offset = app.help_scroll_offset + 1
     /\ ShowHelp(FALSE) => app'.help_scroll_offset = 0]_vars
====
